---------------------------- MODULE Spec2Model ----------------------------
(***************************************************************************)
(* A model of the dynsampler-go sampler engines: the per-key count         *)
(* bookkeeping done by GetSampleRateMulti under the sampler mutex, the     *)
(* two-phase recompute (updateMaps) run by the background worker, the EMA  *)
(* variants with burst detection, and the windowed-throughput sampler      *)
(* with its block list.                                                    *)
(*                                                                         *)
(* float64 values are modelled as fixed-point numbers (thousandths) with   *)
(* the IEEE special values +Inf, -Inf and NaN kept apart, because the rate *)
(* calculator's behaviour on them is part of the code.                     *)
(***************************************************************************)
EXTENDS Integers, Sequences, FiniteSets, TLC

(***************************************************************************)
(* Bounds of the model.                                                    *)
(***************************************************************************)
\* Total number of GetSampleRateMulti calls in one behaviour.
MaxCalls == 3
\* Total number of ticks of the worker's ticker in one behaviour.
MaxTicks == 2
\* Largest time index the clock of the windowed sampler reaches.
MaxIndex == 2
\* Total number of GetSampleRateMulti calls on a WindowedThroughput.
MaxWindowedCalls == 2
\* Total number of operations made on a block list and its reference.
MaxOps == 4
\* The largest lookback a block list is asked to aggregate over.
MaxLookback == 2
\* The largest index given to a block list under test.
MaxKeyIndex == 2

(***************************************************************************)
(* Configuration: the struct fields set before Start.                      *)
(***************************************************************************)
GoalSampleRate == 3
InitialSampleRate == 4
MinEventsPerSec == 3
PerKeyThroughputPerSec == 1
GoalThroughputPerSec == 1
BurstMultiple == 2
BurstDetectionDelay == 1
\* Weight and AgeOutValue, in thousandths (0.5 and 0.5, the defaults).
WeightMilli == 500
AgeOutMilli == 500
\* Lookback of the windowed sampler in time indexes
\* (LookbackFrequencyDuration / UpdateFrequencyDuration).
LookbackIndexes == 1

Keys == {"a", "b"}
\* The keys in sorted byte order (sort.Strings).
KeyOrder == <<"a", "b">>
\* The count arguments callers pass.
Counts == {1, 2}
\* The MaxKeys settings explored (0 = unbounded).
MaxKeysChoices == {0, 1}

Callers == {"c1", "c2"}
Worker == "w"
Threads == Callers \cup {Worker}
NoThread == "none"

LockedVariants == {"AvgSampleRate", "AvgSampleWithMin", "PerKeyThroughput",
                   "TotalThroughput", "EMASampleRate", "EMAThroughput"}
AvgVariants == {"AvgSampleRate", "AvgSampleWithMin"}
EMAVariants == {"EMASampleRate", "EMAThroughput"}
CountVariants == {"AvgSampleRate", "AvgSampleWithMin", "PerKeyThroughput",
                  "TotalThroughput"}
Variants == LockedVariants \cup {"WindowedThroughput"}

(***************************************************************************)
(* float64 as fixed point.  A value is [k |-> kind, v |-> thousandths].    *)
(***************************************************************************)
Scale == 10 * 100

Fx(v) == [k |-> "fin", v |-> v]
Fin(n) == Fx(n * Scale)
PInf == [k |-> "inf", v |-> 0]
NInf == [k |-> "ninf", v |-> 0]
NaN == [k |-> "nan", v |-> 0]

IsNaN(x) == x.k = "nan"
IsFin(x) == x.k = "fin"

\* -1, 0, 1: the sign of a non-NaN value.
FSign(x) ==
    CASE x.k = "inf" -> 1
      [] x.k = "ninf" -> -1
      [] OTHER -> IF x.v > 0 THEN 1 ELSE IF x.v < 0 THEN -1 ELSE 0

FNeg(x) ==
    CASE x.k = "fin" -> Fx(-x.v)
      [] x.k = "inf" -> NInf
      [] x.k = "ninf" -> PInf
      [] OTHER -> NaN

FAdd(x, y) ==
    CASE IsNaN(x) \/ IsNaN(y) -> NaN
      [] IsFin(x) /\ IsFin(y) -> Fx(x.v + y.v)
      [] IsFin(x) -> y
      [] IsFin(y) -> x
      [] x.k = y.k -> x
      [] OTHER -> NaN

FSub(x, y) == FAdd(x, FNeg(y))

\* Integer division truncating toward zero, as float-to-fixed rounding.
TruncDiv(a, b) ==
    IF (a >= 0) = (b > 0) THEN (IF a >= 0 THEN a ELSE -a) \div (IF b > 0 THEN b ELSE -b)
    ELSE -((IF a >= 0 THEN a ELSE -a) \div (IF b > 0 THEN b ELSE -b))

FMul(x, y) ==
    CASE IsNaN(x) \/ IsNaN(y) -> NaN
      [] IsFin(x) /\ IsFin(y) -> Fx(TruncDiv(x.v * y.v, Scale))
      [] FSign(x) = 0 \/ FSign(y) = 0 -> NaN
      [] FSign(x) = FSign(y) -> PInf
      [] OTHER -> NInf

FDiv(x, y) ==
    CASE IsNaN(x) \/ IsNaN(y) -> NaN
      [] IsFin(x) /\ IsFin(y) ->
           IF y.v = 0
           THEN (IF x.v = 0 THEN NaN ELSE IF x.v > 0 THEN PInf ELSE NInf)
           ELSE Fx(TruncDiv(x.v * Scale, y.v))
      [] IsFin(x) -> Fx(0)
      [] IsFin(y) -> IF (FSign(x) = 1) = (y.v >= 0) THEN PInf ELSE NInf
      [] OTHER -> NaN

\* x <= y; false when either is NaN.
FLe(x, y) ==
    CASE IsNaN(x) \/ IsNaN(y) -> FALSE
      [] IsFin(x) /\ IsFin(y) -> x.v <= y.v
      [] x.k = "ninf" -> TRUE
      [] y.k = "inf" -> TRUE
      [] OTHER -> FALSE

FLt(x, y) == FLe(x, y) /\ ~FLe(y, x)

\* math.Max: NaN if either argument is NaN, +Inf if either is +Inf.
FMax(x, y) ==
    CASE IsNaN(x) \/ IsNaN(y) -> NaN
      [] FLe(x, y) -> y
      [] OTHER -> x

\* math.Ceil
FCeil(x) ==
    IF IsFin(x)
    THEN (IF x.v >= 0 THEN Fx(((x.v + Scale - 1) \div Scale) * Scale)
          ELSE Fx(-(((-x.v) \div Scale) * Scale)))
    ELSE x

\* Stand-ins for math.MinInt64 and math.MaxInt64 (TLC integers are 32 bits wide).
MinInt == -2147483647
MaxInt == 2147483647

\* int(f) for a float64 f.  For a finite value the fraction is discarded.  For a
\* value int cannot represent, the Go specification leaves the result to the
\* implementation: amd64 yields the minimum integer; arm64 saturates and turns
\* NaN into 0.
IntOfFloat(x, arch) ==
    CASE IsFin(x) -> TruncDiv(x.v, Scale)
      [] x.k = "inf" -> IF arch = "amd64" THEN MinInt ELSE MaxInt
      [] x.k = "ninf" -> MinInt
      [] OTHER -> IF arch = "amd64" THEN MinInt ELSE 0

\* log10(n) in thousandths for the integers 1..16.
Log10Table == <<0, 301, 477, 602, 699, 778, 845, 903, 954, 1000,
                1041, 1079, 1114, 1146, 1176, 1204>>

\* math.Log10 for values >= 1: exact at the integers, interpolated between them.
FLog10(x) ==
    CASE IsNaN(x) -> NaN
      [] x.k = "inf" -> PInf
      [] x.k = "ninf" -> NaN
      [] OTHER ->
           LET n == x.v \div Scale
               r == x.v % Scale
           IN  IF r = 0 THEN Fx(Log10Table[n])
               ELSE Fx(Log10Table[n] + ((Log10Table[n + 1] - Log10Table[n]) * r) \div Scale)

(***************************************************************************)
(* Maps (Go map[string]T) are functions whose domain is a subset of Keys.  *)
(***************************************************************************)
EmptyMap == [k \in {} |-> 0]

Size(m) == Cardinality(DOMAIN m)

\* m[key] += n, creating the entry when it is absent.
MapAdd(m, key, n) ==
    [k \in (DOMAIN m) \cup {key} |->
        IF k = key THEN (IF key \in DOMAIN m THEN m[key] + n ELSE n) ELSE m[k]]

RECURSIVE SumOver(_, _)
SumOver(m, ks) ==
    IF ks = {} THEN 0
    ELSE LET k == CHOOSE x \in ks : TRUE IN m[k] + SumOver(m, ks \ {k})

\* The sum of the values of an integer-valued map.
MapSum(m) == SumOver(m, DOMAIN m)

RECURSIVE FSumOver(_, _)
FSumOver(m, ks) ==
    IF ks = {} THEN Fx(0)
    ELSE LET k == CHOOSE x \in ks : TRUE IN FAdd(m[k], FSumOver(m, ks \ {k}))

\* The keys of a map in sorted order.
SortedKeys(m) == SelectSeq(KeyOrder, LAMBDA k : k \in DOMAIN m)

(***************************************************************************)
(* The rate calculator.  buckets maps keys to float counts.                *)
(***************************************************************************)
\* _calculateSingleBucketRate
calculateSingleBucketRate(goalRatio, cnt, arch) ==
    LET count == FMax(Fin(1), cnt)
        goalForKey == FMax(Fin(1), FMul(FLog10(count), goalRatio))
        rate == FCeil(FDiv(count, goalForKey))
    IN  IF FLe(count, goalForKey) THEN 1
        ELSE IF IsNaN(rate) THEN 1
        ELSE IntOfFloat(rate, arch)

\* One iteration of the loop over the sorted keys: the rate of the key and the
\* extra passed on to the next key.
RateStep(goalRatio, cnt, extra, keysRemaining, arch) ==
    LET count == FMax(Fin(1), cnt)
        extraForKey == FDiv(extra, Fin(keysRemaining))
        goalForKey == FAdd(FMax(Fin(1), FMul(FLog10(count), goalRatio)), extraForKey)
        extra1 == FSub(extra, extraForKey)
        rate == FCeil(FDiv(count, goalForKey))
        r == IF IsNaN(rate) THEN 1 ELSE IntOfFloat(rate, arch)
    IN  IF FLe(count, goalForKey)
        THEN [rate |-> 1, extra |-> FAdd(extra1, FSub(goalForKey, count))]
        ELSE [rate |-> r,
              extra |-> FAdd(extra1, FSub(goalForKey, FDiv(count, Fin(r))))]

RECURSIVE RateLoop(_, _, _, _, _, _, _)
\* The loop of calculateSampleRates from position i of the sorted keys on.
RateLoop(goalRatio, buckets, keys, i, extra, acc, arch) ==
    IF i > Len(keys) THEN acc
    ELSE LET o == RateStep(goalRatio, buckets[keys[i]], extra, Len(keys) - i + 1, arch)
         IN  RateLoop(goalRatio, buckets, keys, i + 1, o.extra,
                      [k \in (DOMAIN acc) \cup {keys[i]} |->
                          IF k = keys[i] THEN o.rate ELSE acc[k]], arch)

\* calculateSampleRates
calculateSampleRates(goalRatio, buckets, arch) ==
    IF Size(buckets) = 1
    THEN [k \in DOMAIN buckets |-> calculateSingleBucketRate(goalRatio, buckets[k], arch)]
    ELSE RateLoop(goalRatio, buckets, SortedKeys(buckets), 1, Fx(0), EmptyMap, arch)

(***************************************************************************)
(* The recompute of each sampler as a function of the window snapshot.     *)
(* The result is [rates |-> the new table, have |-> whether haveData is    *)
(* set when the table is published, low |-> whether the low-traffic branch *)
(* of AvgSampleWithMin produced the table].                                *)
(***************************************************************************)
\* A count map as a map of float64 values.
AsFloats(counts) == [k \in DOMAIN counts |-> Fin(counts[k])]

\* goalCount / logSum for the average-rate samplers.
AvgGoalRatio(tmpC) ==
    LET sumEvents == Fin(MapSum(tmpC))
        goalCount == FDiv(sumEvents, Fin(GoalSampleRate))
        logSum == FSumOver([k \in DOMAIN tmpC |-> FLog10(Fin(tmpC[k]))], DOMAIN tmpC)
    IN  FDiv(goalCount, logSum)

\* AvgSampleRate.updateMaps after the snapshot.
AvgSampleRateCompute(tmpC, arch) ==
    IF Size(tmpC) = 0
    THEN [rates |-> EmptyMap, have |-> FALSE, low |-> FALSE]
    ELSE [rates |-> calculateSampleRates(AvgGoalRatio(tmpC), AsFloats(tmpC), arch),
          have |-> TRUE, low |-> FALSE]

\* The low-traffic test of AvgSampleWithMin.updateMaps:
\* sumEvents < MinEventsPerSec * ClearFrequencyDuration.Seconds().
BelowMinimum(tmpC, ms) == FLt(Fin(MapSum(tmpC)), Fx(MinEventsPerSec * ms))

\* AvgSampleWithMin.updateMaps after the snapshot.
AvgSampleWithMinCompute(tmpC, ms, arch) ==
    IF Size(tmpC) = 0
    THEN [rates |-> EmptyMap, have |-> FALSE, low |-> FALSE]
    ELSE IF BelowMinimum(tmpC, ms)
    THEN [rates |-> [k \in DOMAIN tmpC |-> 1], have |-> FALSE, low |-> TRUE]
    ELSE [rates |-> calculateSampleRates(AvgGoalRatio(tmpC), AsFloats(tmpC), arch),
          have |-> TRUE, low |-> FALSE]

\* A recompute that divides the per-key goal by the count.
PerKeyThroughputComputeInverted(tmpC, ms, arch) ==
    LET actualPerKeyRate == PerKeyThroughputPerSec * (ms \div 1000)
    IN  [rates |-> [k \in DOMAIN tmpC |->
                      IntOfFloat(FMax(Fin(1), FDiv(Fin(actualPerKeyRate), Fin(tmpC[k]))),
                                 arch)],
         have |-> FALSE, low |-> FALSE]

\* PerKeyThroughput.updateMaps after the snapshot.
PerKeyThroughputCompute(tmpC, ms, arch) ==
    LET actualPerKeyRate == PerKeyThroughputPerSec * (ms \div 1000)
    IN  [rates |-> [k \in DOMAIN tmpC |->
                      IntOfFloat(FMax(Fin(1), FDiv(Fin(tmpC[k]), Fin(actualPerKeyRate))),
                                 arch)],
         have |-> FALSE, low |-> FALSE]

\* TotalThroughput.updateMaps after the snapshot.
TotalThroughputCompute(tmpC, ms, arch) ==
    IF Size(tmpC) = 0
    THEN [rates |-> EmptyMap, have |-> FALSE, low |-> FALSE]
    ELSE LET totalGoalThroughput == Fx(GoalThroughputPerSec * ms)
             throughputPerKey ==
                 IntOfFloat(FMax(Fin(1), FDiv(totalGoalThroughput, Fin(Size(tmpC)))), arch)
         IN  [rates |-> [k \in DOMAIN tmpC |->
                           IntOfFloat(FMax(Fin(1), FDiv(Fin(tmpC[k]), Fin(throughputPerKey))),
                                      arch)],
              have |-> FALSE, low |-> FALSE]

\* The recompute of the samplers that reset their counts every window.
CountCompute(v, tmpC, ms, arch) ==
    CASE v = "AvgSampleRate" -> AvgSampleRateCompute(tmpC, arch)
      [] v = "AvgSampleWithMin" -> AvgSampleWithMinCompute(tmpC, ms, arch)
      [] v = "PerKeyThroughput" -> PerKeyThroughputCompute(tmpC, ms, arch)
      [] v = "TotalThroughput" -> TotalThroughputCompute(tmpC, ms, arch)

(***************************************************************************)
(* The state.                                                              *)
(***************************************************************************)
VARIABLES
    cfg,               \* the configuration: [variant, maxKeys, ms, arch]
    lock,              \* the holder of the sampler mutex, or NoThread
    pc,                \* where each thread is
    arg,               \* per caller: the [key, count] of its call in progress
    last,              \* the last call that returned: [valid, rate]
    currentCounts,
    savedSampleRates,
    haveData,
    requestCount,
    eventCount,
    tmpCounts,         \* updateMaps: the snapshot taken of the window (for the
                       \* windowed sampler, its local aggregateCounts)
    pending,           \* updateMaps: the computed table, not yet published
    ncalls,            \* number of GetSampleRateMulti calls begun
    nticks,            \* number of scheduler wake-ups
    completed,         \* number of recomputes that have returned
    lastOutput,        \* what the last recompute (or Start) produced: [rates, low]
    \* EMA samplers
    movingAverage,     \* key -> average, in thousandths
    burstThreshold,    \* in thousandths
    currentBurstSum,
    intervalCount,
    updating,
    burstCount,
    wake,              \* which case of the worker's select fired: "tick" or "burst"
    bailed,            \* the short circuit the updateMaps that returned last took:
                       \* "empty", "updating", or "no" when it published
    \* WindowedThroughput and its block list
    blocks,            \* the list after the sentinel, newest first: [index, keyToCount]
    keyToIndexes,      \* bounded list: key -> indexes, newest first
    now,               \* what GetCurrentIndex() returns
    numKeys,
    cur,               \* per caller: the index it read for its call
    \* the reference implementation of the block list's tests
    records,           \* AtomicRecord.records: key -> indexes, newest first; on a
                       \* sampler, the events its list has accepted
    lastInc,           \* the last IncrementKey made on both implementations
    lastAgg,           \* the last AggregateCounts made on both implementations, its
                       \* finish index and the indexes of the blocks it cut off
    ordered,           \* no IncrementKey so far had an index below an earlier one
    top,               \* the highest index given to IncrementKey so far
    nops,              \* number of block list operations made
    \* Start and Stop
    conf,              \* the interval fields: [sec, dur], dur in microseconds
    started,           \* what Start returned: "no" (not called), "ok" or "err"
    workers,           \* number of worker goroutines spawned
    done,              \* the done channel: "nil", "open" or "closed"
    stops,             \* number of Stop calls that have returned
    panic,             \* the panic that ended the process, or "none"
    seen,              \* OnlyOnce.seen: [isNil, keys]
    \* SaveState and LoadState
    state,             \* the last SaveState on the sampler: [valid, err, bytes, from]
    restored,          \* a second sampler, to load into
    loaded,            \* the last LoadState on the second sampler
    \* GetMetrics
    prefix,            \* the prefix field and the memoized key names
    mets,              \* the GetMetrics calls made: their number, the last one's
                       \* argument and result, the first prefix that got a result
    \* functions called on their own
    calc,              \* a calculateSampleRates call: its arguments and result
    lookbackFrequencyDuration, \* WindowedThroughput.LookbackFrequencyDuration
    burstMultiple,     \* BurstMultiple of the EMA samplers, after Start's default
    ticker             \* the EMA worker's time.Ticker: the time since it was made or
                       \* last fired, when the passing of time is followed

emaVars == <<movingAverage, burstThreshold, currentBurstSum, intervalCount, updating,
             burstCount, wake, bailed>>

winVars == <<blocks, keyToIndexes, now, numKeys, cur>>

refVars == <<records, lastInc, lastAgg, ordered, top, nops>>

funVars == <<calc, lookbackFrequencyDuration, burstMultiple, ticker>>

\* lifeVars without the ticker.
otherVars == <<conf, started, workers, done, stops, panic, seen, state, restored, loaded,
               prefix, mets, calc, lookbackFrequencyDuration, burstMultiple>>

lifeVars == <<conf, started, workers, done, stops, panic, seen, state, restored, loaded,
              prefix, mets, funVars>>

vars == <<cfg, lock, pc, arg, last, currentCounts, savedSampleRates, haveData,
          requestCount, eventCount, tmpCounts, pending, ncalls, nticks,
          completed, lastOutput, emaVars, winVars, refVars, lifeVars>>

\* The configurations explored: every variant with and without a key cap at a
\* one-second period, and the clear-frequency samplers at a half-second period.
Configs ==
    [variant : Variants, maxKeys : MaxKeysChoices, ms : {1000}, arch : {"amd64"}]
    \cup [variant : {"PerKeyThroughput"}, maxKeys : {0}, ms : {500},
          arch : {"amd64", "arm64"}]
    \cup [variant : {"AvgSampleWithMin", "TotalThroughput"}, maxKeys : {0}, ms : {500},
          arch : {"amd64"}]

NoCall == [key |-> "a", count |-> 0]
NoRet == [valid |-> FALSE, rate |-> 0]
NoPending == [rates |-> EmptyMap, have |-> FALSE, low |-> FALSE]
NoInc == [valid |-> FALSE, tracked |-> FALSE, room |-> FALSE, err |-> FALSE,
          refErr |-> FALSE, same |-> FALSE]
NoAgg == [valid |-> FALSE, counts |-> EmptyMap, refCounts |-> EmptyMap, finish |-> 0,
          dropped |-> <<>>]

\* The samplers whose struct carries requestCount and eventCount.
HasMetrics(v) == v \notin {"AvgSampleRate", "TotalThroughput"}
\* The samplers with a cold-start fallback (the haveData field).
HasHaveData(v) == v \in AvgVariants \cup EMAVariants

\* The fresh block list and the fresh reference.
InitBlockList ==
    /\ blocks = <<>>
    /\ keyToIndexes = EmptyMap
    /\ records = EmptyMap
    /\ lastInc = NoInc
    /\ lastAgg = NoAgg
    /\ ordered = TRUE
    /\ top = 0
    /\ nops = 0

\* The fields Start initializes, and the bookkeeping of the model.
InitFields ==
    /\ lock = NoThread
    /\ arg = [c \in Callers |-> NoCall]
    /\ last = NoRet
    /\ currentCounts = EmptyMap
    /\ savedSampleRates = EmptyMap
    /\ haveData = FALSE
    /\ requestCount = 0
    /\ eventCount = 0
    /\ tmpCounts = EmptyMap
    /\ pending = NoPending
    /\ ncalls = 0
    /\ nticks = 0
    /\ completed = 0
    /\ lastOutput = [rates |-> EmptyMap, low |-> FALSE]
    /\ movingAverage = EmptyMap
    /\ burstThreshold = 0
    /\ currentBurstSum = 0
    /\ intervalCount = 0
    /\ updating = FALSE
    /\ burstCount = 0
    /\ wake = "tick"
    /\ bailed = "no"
    /\ now = 0
    /\ numKeys = 0
    /\ cur = [c \in Callers |-> 0]

\* The fields of a sampler after Start: the worker is in its select and the
\* application may call.
InitSampler ==
    /\ pc = [t \in Threads |-> IF t = Worker THEN "select" ELSE "idle"]
    /\ InitFields

\* OnlyOnce.seen before Start makes it: a nil map.
NilSeen == [isNil |-> TRUE, keys |-> {}]
\* No SaveState made yet; saved, avg and have are the saving sampler's fields.
NoState == [valid |-> FALSE, err |-> FALSE, bytes |-> [syntax |-> FALSE, fields |-> <<>>],
            saved |-> EmptyMap, avg |-> EmptyMap, have |-> FALSE]
\* A sampler struct before LoadState and Start: nil maps, haveData false.
FreshSampler == [savedNil |-> TRUE, saved |-> EmptyMap, avgNil |-> TRUE,
                 avg |-> EmptyMap, have |-> FALSE, started |-> FALSE]
\* No LoadState or SaveState made yet on the second sampler.  op is the last
\* of the two ("load", "save") and err its error.  For a load, given is its
\* argument, fromSave tells that it is what the first sampler's SaveState
\* returned, and saved, avg and have are that sampler's fields then.  For a
\* save, unset tells that a map was nil at the call and bytes that bytes came
\* back.  n counts the loads.
NoLoad == [n |-> 0, op |-> "none", unset |-> FALSE, bytes |-> FALSE,
           given |-> [syntax |-> FALSE, fields |-> <<>>], err |-> FALSE,
           fromSave |-> FALSE,
           saved |-> EmptyMap, avg |-> EmptyMap, have |-> FALSE]
\* No calculateSampleRates call on its own: range is the order in which the
\* range over the map yields the keys, rates the map returned.
NoCalc == [goalRatio |-> Fx(0), buckets |-> EmptyMap, range |-> <<>>, done |-> FALSE,
           rates |-> EmptyMap]
\* The zero values of the prefix field and of the memoized key names.
NoPrefix == [prefix |-> "", requestCountKey |-> "", eventCountKey |-> ""]
\* No GetMetrics call made yet.  isNil, keys, req and ev are the last result (a
\* nil map, or the names and values of its request and event counters);
\* pinned tells that a call has returned a map, first is that call's prefix.
NoMetrics == [n |-> 0, arg |-> "", isNil |-> TRUE, keys |-> {}, req |-> 0, ev |-> 0,
              pinned |-> FALSE, first |-> ""]

\* The adjustment interval, in the steps by which time passes where it is
\* followed.
IntervalSteps == 2

\* A ticker whose time is not followed: a tick can be due at any moment.
\* owed is the time since a burst was detected whose signal nobody received,
\* -1 when no recompute has been owed since the last one started.
Untimed == [timed |-> FALSE, age |-> 0, owed |-> -1]

\* A send on burstSignal that nobody received restarts the ticker all the same.
NoReceiverRestarts(t) ==
    IF t.timed THEN [t EXCEPT !.age = 0, !.owed = IF t.owed < 0 THEN 0 ELSE t.owed] ELSE t

\* The default case of the send on burstSignal: nobody received it, the ticker
\* is as it was.
NoReceiver(t) == IF t.timed /\ t.owed < 0 THEN [t EXCEPT !.owed = 0] ELSE t

\* case <-e.burstSignal: ticker.Stop() and time.NewTicker(...): the next tick is
\* a full interval away, and updateMaps starts.
RestartTicker(t) == [t EXCEPT !.age = 0, !.owed = -1]

\* case <-ticker.C: the ticker goes on, its next tick an interval after this
\* one, and updateMaps starts.
Fired(t) == [t EXCEPT !.age = 0, !.owed = -1]

\* <-ticker.C is ready: an interval has passed since the ticker was made or
\* last fired.
TickDue(t) == ~t.timed \/ t.age = IntervalSteps

\* The fields SaveState, LoadState and GetMetrics work on, as the struct's zero
\* value has them.
InitExtras ==
    /\ state = NoState
    /\ restored = FreshSampler
    /\ loaded = NoLoad
    /\ prefix = NoPrefix
    /\ mets = NoMetrics
    /\ calc = NoCalc
    /\ burstMultiple = BurstMultiple
    /\ ticker = Untimed
    /\ lookbackFrequencyDuration = IF started = "no" THEN 0 ELSE LookbackIndexes * conf.dur

\* Start has returned nil and the worker is in its select.
InitStarted ==
    /\ conf = [sec |-> 0, dur |-> cfg.ms * 1000]
    /\ started = "ok"
    /\ workers = 1
    /\ done = "open"
    /\ stops = 0
    /\ panic = "none"
    /\ seen = NilSeen

\* The state after Start.
Init ==
    /\ cfg \in Configs
    /\ InitSampler
    /\ InitBlockList
    /\ InitStarted
    /\ InitExtras

(***************************************************************************)
(* The sampler mutex.                                                      *)
(***************************************************************************)
\* A mutex that excludes nobody.
CanLockAlways(t) == TRUE

\* sync.Mutex.Lock returns only when no thread holds the mutex.
CanLock(t) == lock = NoThread

(***************************************************************************)
(* GetSampleRateMulti of the samplers that count under the sampler mutex.  *)
(***************************************************************************)
\* A MaxKeys test that admits every key.
AdmitsAlways(counts, key, maxKeys) == TRUE

\* The MaxKeys test: the call may add to currentCounts[key].
Admits(counts, key, maxKeys) ==
    IF maxKeys > 0 THEN key \in DOMAIN counts \/ Size(counts) < maxKeys ELSE TRUE

\* lock.Lock() at the head of GetSampleRateMulti(key, count).
GetSampleRateMulti_Lock(c, key, count) ==
    /\ cfg.variant \in LockedVariants
    /\ pc[c] = "idle"
    /\ ncalls < MaxCalls
    /\ CanLock(c)
    /\ lock' = c
    /\ arg' = [arg EXCEPT ![c] = [key |-> key, count |-> count]]
    /\ pc' = [pc EXCEPT ![c] = "incr"]
    /\ ncalls' = ncalls + 1
    /\ UNCHANGED <<cfg, last, currentCounts, savedSampleRates, haveData, requestCount,
                   eventCount, tmpCounts, pending, nticks, completed, lastOutput, emaVars>>
    /\ UNCHANGED <<winVars, refVars, lifeVars>>

\* A send on burstSignal that waits for the worker to receive.
SendBlocks(c) == FALSE

\* select { case e.burstSignal <- struct{}{}: default: }: with the default case
\* the sender goes on when no receiver takes the signal.
SendHasDefault(c) == TRUE

\* A burst test that does not wait for BurstDetectionDelay intervals.
BurstDetectedAtOnce(threshold, burstSum, intervals) ==
    /\ threshold > 0
    /\ burstSum * Scale >= threshold

\* The burst test of the EMA samplers, made after the increment.
BurstDetected(threshold, burstSum, intervals) ==
    /\ threshold > 0
    /\ burstSum * Scale >= threshold
    /\ intervals >= BurstDetectionDelay

\* The counter updates, the MaxKeys-guarded increment and, for the EMA
\* samplers, the burst test with its non-blocking send on burstSignal: the
\* send succeeds only if the worker is waiting in its select.
GetSampleRateMulti_Increment(c) ==
    /\ cfg.variant \in LockedVariants
    /\ pc[c] = "incr"
    /\ IF HasMetrics(cfg.variant)
       THEN /\ requestCount' = requestCount + 1
            /\ eventCount' = eventCount + arg[c].count
       ELSE UNCHANGED <<requestCount, eventCount>>
    /\ currentCounts' = IF Admits(currentCounts, arg[c].key, cfg.maxKeys)
                        THEN MapAdd(currentCounts, arg[c].key, arg[c].count)
                        ELSE currentCounts
    /\ IF cfg.variant \in EMAVariants
       THEN LET sum == IF Admits(currentCounts, arg[c].key, cfg.maxKeys)
                       THEN currentBurstSum + arg[c].count
                       ELSE currentBurstSum
            IN  IF BurstDetected(burstThreshold, sum, intervalCount)
                THEN /\ currentBurstSum' = 0
                     /\ burstCount' = burstCount + 1
                     /\ \/ /\ pc[Worker] = "select"
                           /\ wake' = "burst"
                           /\ ticker' = RestartTicker(ticker)
                           /\ pc' = [pc EXCEPT ![c] = "lookup", ![Worker] = "begin"]
                        \/ /\ SendHasDefault(c)
                           /\ wake' = wake
                           /\ ticker' = NoReceiver(ticker)
                           /\ pc' = [pc EXCEPT ![c] = "lookup"]
                ELSE /\ currentBurstSum' = sum
                     /\ pc' = [pc EXCEPT ![c] = "lookup"]
                     /\ UNCHANGED <<burstCount, wake, ticker>>
       ELSE /\ pc' = [pc EXCEPT ![c] = "lookup"]
            /\ UNCHANGED <<currentBurstSum, burstCount, wake, ticker>>
    /\ UNCHANGED <<cfg, lock, arg, last, savedSampleRates, haveData, tmpCounts, pending,
                   ncalls, nticks, completed, lastOutput, movingAverage, burstThreshold,
                   intervalCount, updating, bailed>>
    /\ UNCHANGED <<winVars, refVars, otherVars>>

\* A lookup without the cold-start fallback.
LookupRateNoColdStart(v, have, saved, key) ==
    IF key \in DOMAIN saved THEN saved[key] ELSE 1

\* The value the lookup at the end of GetSampleRateMulti yields.
LookupRate(v, have, saved, key) ==
    IF HasHaveData(v) /\ ~have
    THEN (IF v = "EMAThroughput" THEN InitialSampleRate ELSE GoalSampleRate)
    ELSE IF key \in DOMAIN saved THEN saved[key]
    ELSE 1

\* The lookup, the deferred lock.Unlock() and the return.
GetSampleRateMulti_Return(c) ==
    /\ cfg.variant \in LockedVariants
    /\ pc[c] = "lookup"
    /\ last' = [valid |-> TRUE,
                rate |-> LookupRate(cfg.variant, haveData, savedSampleRates, arg[c].key)]
    /\ lock' = NoThread
    /\ arg' = [arg EXCEPT ![c] = NoCall]
    /\ pc' = [pc EXCEPT ![c] = "idle"]
    /\ UNCHANGED <<cfg, currentCounts, savedSampleRates, haveData, requestCount,
                   eventCount, tmpCounts, pending, ncalls, nticks, completed, lastOutput,
                   emaVars>>
    /\ UNCHANGED <<winVars, refVars, lifeVars>>

(***************************************************************************)
(* The background worker of the samplers that reset their counts.          *)
(***************************************************************************)
\* case <-ticker.C of the worker's select.
Tick ==
    /\ cfg.variant \in CountVariants
    /\ pc[Worker] = "select"
    /\ nticks < MaxTicks
    /\ nticks' = nticks + 1
    /\ pc' = [pc EXCEPT ![Worker] = "snapshot"]
    /\ UNCHANGED <<cfg, lock, arg, last, currentCounts, savedSampleRates, haveData,
                   requestCount, eventCount, tmpCounts, pending, ncalls, completed,
                   lastOutput, emaVars>>
    /\ UNCHANGED <<winVars, refVars, lifeVars>>

\* An updateMaps that goes on counting into the map it has just taken.
FreshCountsKept(counts) == counts

\* currentCounts = make(map[string]...): the map the calls count into from
\* the swap on.
FreshCounts(counts) == EmptyMap

\* updateMaps, first critical section: tmpCounts := currentCounts and a fresh
\* currentCounts; then, outside the lock, the computation of the new table.
UpdateMaps_Snapshot ==
    /\ cfg.variant \in CountVariants
    /\ pc[Worker] = "snapshot"
    /\ CanLock(Worker)
    /\ tmpCounts' = currentCounts
    /\ currentCounts' = FreshCounts(currentCounts)
    /\ pending' = CountCompute(cfg.variant, currentCounts, cfg.ms, cfg.arch)
    /\ pc' = [pc EXCEPT ![Worker] = "publish"]
    /\ UNCHANGED <<cfg, lock, arg, last, savedSampleRates, haveData, requestCount,
                   eventCount, ncalls, nticks, completed, lastOutput, emaVars>>
    /\ UNCHANGED <<winVars, refVars, lifeVars>>

\* A publication that writes the new entries into the old table.
PublishMerged(old, new) ==
    [k \in DOMAIN old \cup DOMAIN new |-> IF k \in DOMAIN new THEN new[k] ELSE old[k]]

\* savedSampleRates = newSavedSampleRates: the table after the assignment.
Publish(old, new) == new

\* A haveData that tells whether the last window gave a table.
HaveDataOfWindow(have, computed) == computed

\* haveData after a publication: the only assignment is a.haveData = true, on
\* the path that computed rates.
HaveDataAfter(have, computed) == have \/ computed

\* updateMaps, second critical section: the new table replaces savedSampleRates.
UpdateMaps_Publish ==
    /\ cfg.variant \in CountVariants
    /\ pc[Worker] = "publish"
    /\ CanLock(Worker)
    /\ savedSampleRates' = Publish(savedSampleRates, pending.rates)
    /\ haveData' = HaveDataAfter(haveData, pending.have)
    /\ lastOutput' = [rates |-> pending.rates, low |-> pending.low]
    /\ completed' = completed + 1
    /\ pending' = NoPending
    /\ tmpCounts' = EmptyMap
    /\ pc' = [pc EXCEPT ![Worker] = "select"]
    /\ UNCHANGED <<cfg, lock, arg, last, currentCounts, requestCount, eventCount,
                   ncalls, nticks, emaVars>>
    /\ UNCHANGED <<winVars, refVars, lifeVars>>

(***************************************************************************)
(* The EMA samplers: moving average, recompute, worker.                    *)
(***************************************************************************)
\* adjustAverage, on thousandths: value * alpha + (1 - alpha) * oldAvg.
adjustAverage(oldAvg, value, alpha) ==
    TruncDiv(value * alpha, Scale) + TruncDiv((Scale - alpha) * oldAvg, Scale)

\* An updateEMA that keeps every key, however small its average.
updateEMAKeepAll(avg, newCounts) ==
    [k \in DOMAIN avg \cup DOMAIN newCounts |->
        adjustAverage(IF k \in DOMAIN avg THEN avg[k] ELSE 0,
                      IF k \in DOMAIN newCounts THEN newCounts[k] * Scale ELSE 0,
                      WeightMilli)]

\* updateEMA: the moving average after a window with counts newCounts.
updateEMA(avg, newCounts) ==
    LET old == [k \in DOMAIN avg |->
                  adjustAverage(avg[k],
                                IF k \in DOMAIN newCounts THEN newCounts[k] * Scale ELSE 0,
                                WeightMilli)]
        fresh == [k \in (DOMAIN newCounts) \ (DOMAIN avg) |->
                    adjustAverage(0, newCounts[k] * Scale, WeightMilli)]
        keep == {k \in DOMAIN old : old[k] >= AgeOutMilli}
                  \cup {k \in DOMAIN fresh : fresh[k] >= AgeOutMilli}
    IN  [k \in keep |-> IF k \in DOMAIN old THEN old[k] ELSE fresh[k]]

\* sumEvents of updateMaps: the sum of max(1, average), in thousandths.
EMASumEvents(avg) ==
    MapSum([k \in DOMAIN avg |-> IF avg[k] > Scale THEN avg[k] ELSE Scale])

\* goalCount / logSum of the EMA samplers.
EMAGoalRatio(v, avg, ms) ==
    LET goalCount == IF v = "EMASampleRate"
                     THEN FDiv(Fx(EMASumEvents(avg)), Fin(GoalSampleRate))
                     ELSE Fx(GoalThroughputPerSec * ms)
        logSum == FSumOver([k \in DOMAIN avg |-> FLog10(FMax(Fin(1), Fx(avg[k])))],
                           DOMAIN avg)
    IN  FDiv(goalCount, logSum)

\* The table updateMaps of an EMA sampler computes from the moving average.
EMACompute(v, avg, ms, arch) ==
    [rates |-> calculateSampleRates(EMAGoalRatio(v, avg, ms),
                                    [k \in DOMAIN avg |-> Fx(avg[k])], arch),
     have |-> TRUE, low |-> FALSE]

\* A worker loop that counts an interval after every updateMaps, the one a
\* burst started included.
AfterUpdateCounts == "count"

\* Where the worker goes when updateMaps returns: a tick increments
\* intervalCount, a burst goes back to the select.
AfterUpdate == IF wake = "tick" THEN "count" ELSE "select"

\* case <-ticker.C of the EMA worker's select.
EMATick ==
    /\ cfg.variant \in EMAVariants
    /\ pc[Worker] = "select"
    /\ nticks < MaxTicks
    /\ TickDue(ticker)
    /\ ticker' = Fired(ticker)
    /\ nticks' = nticks + 1
    /\ wake' = "tick"
    /\ pc' = [pc EXCEPT ![Worker] = "begin"]
    /\ UNCHANGED <<cfg, lock, arg, last, currentCounts, savedSampleRates, haveData,
                   requestCount, eventCount, tmpCounts, pending, ncalls, completed,
                   lastOutput, movingAverage, burstThreshold, currentBurstSum,
                   intervalCount, updating, burstCount, bailed>>
    /\ UNCHANGED <<winVars, refVars, otherVars>>

\* Where an updateMaps returns to: the worker's loop, or the goroutine that
\* called it directly, which ends.
ReturnsTo(t) == IF t = Worker THEN AfterUpdate ELSE "idle"

\* An updateMaps that goes on while another is running.
BailsWhenEmpty(counts, upd) == Size(counts) = 0

\* An updateMaps that goes on when there was no traffic.
BailsWhenUpdating(counts, upd) == upd

\* The two short circuits at the head of updateMaps: no traffic, or another
\* updateMaps going.
Bails(counts, upd) == Size(counts) = 0 \/ upd

\* updateMaps, first critical section: return if there was no traffic or another
\* updateMaps is running; else set updating, snapshot and reset the window.
updateMaps_Begin(t) ==
    /\ cfg.variant \in EMAVariants
    /\ pc[t] = "begin"
    /\ CanLock(t)
    /\ IF Bails(currentCounts, updating)
       THEN /\ pc' = [pc EXCEPT ![t] = ReturnsTo(t)]
            /\ completed' = completed + 1
            /\ bailed' = IF Size(currentCounts) = 0 THEN "empty" ELSE "updating"
            /\ UNCHANGED <<currentCounts, tmpCounts, currentBurstSum, updating>>
       ELSE /\ updating' = TRUE
            /\ tmpCounts' = currentCounts
            /\ currentCounts' = FreshCounts(currentCounts)
            /\ currentBurstSum' = 0
            /\ pc' = [pc EXCEPT ![t] = "ema"]
            /\ UNCHANGED <<completed, bailed>>
    /\ UNCHANGED <<cfg, lock, arg, last, savedSampleRates, haveData, requestCount,
                   eventCount, pending, ncalls, nticks, lastOutput, movingAverage,
                   burstThreshold, intervalCount, burstCount, wake>>
    /\ UNCHANGED <<winVars, refVars, lifeVars>>

EMAUpdateMaps_Begin == updateMaps_Begin(Worker)

\* updateMaps, outside the lock: updateEMA(tmpCounts) rewrites movingAverage.
updateMaps_UpdateEMA(t) ==
    /\ cfg.variant \in EMAVariants
    /\ pc[t] = "ema"
    /\ movingAverage' = updateEMA(movingAverage, tmpCounts)
    /\ pc' = [pc EXCEPT ![t] = "threshold"]
    /\ UNCHANGED <<cfg, lock, arg, last, currentCounts, savedSampleRates, haveData,
                   requestCount, eventCount, tmpCounts, pending, ncalls, nticks,
                   completed, lastOutput, burstThreshold, currentBurstSum, intervalCount,
                   updating, burstCount, wake, bailed>>
    /\ UNCHANGED <<winVars, refVars, lifeVars>>

EMAUpdateMaps_UpdateEMA == updateMaps_UpdateEMA(Worker)

\* updateMaps, second critical section: burstThreshold; then, outside the lock,
\* the new table is computed from movingAverage.
updateMaps_Threshold(t) ==
    /\ cfg.variant \in EMAVariants
    /\ pc[t] = "threshold"
    /\ CanLock(t)
    /\ burstThreshold' = EMASumEvents(movingAverage) * burstMultiple
    /\ pending' = EMACompute(cfg.variant, movingAverage, cfg.ms, cfg.arch)
    /\ pc' = [pc EXCEPT ![t] = "publish"]
    /\ UNCHANGED <<cfg, lock, arg, last, currentCounts, savedSampleRates, haveData,
                   requestCount, eventCount, tmpCounts, ncalls, nticks, completed,
                   lastOutput, movingAverage, currentBurstSum, intervalCount, updating,
                   burstCount, wake, bailed>>
    /\ UNCHANGED <<winVars, refVars, lifeVars>>

EMAUpdateMaps_Threshold == updateMaps_Threshold(Worker)

\* updateMaps, third critical section: publish the table, set haveData, clear
\* updating.
updateMaps_Publish(t) ==
    /\ cfg.variant \in EMAVariants
    /\ pc[t] = "publish"
    /\ CanLock(t)
    /\ savedSampleRates' = Publish(savedSampleRates, pending.rates)
    /\ haveData' = TRUE
    /\ updating' = FALSE
    /\ lastOutput' = [rates |-> pending.rates, low |-> pending.low]
    /\ completed' = completed + 1
    /\ pending' = NoPending
    /\ tmpCounts' = EmptyMap
    /\ bailed' = "no"
    /\ pc' = [pc EXCEPT ![t] = ReturnsTo(t)]
    /\ UNCHANGED <<cfg, lock, arg, last, currentCounts, requestCount, eventCount,
                   ncalls, nticks, movingAverage, burstThreshold, currentBurstSum,
                   intervalCount, burstCount, wake>>
    /\ UNCHANGED <<winVars, refVars, lifeVars>>

EMAUpdateMaps_Publish == updateMaps_Publish(Worker)

\* e.intervalCount++ in the worker loop, after updateMaps has returned (no lock).
EMAIntervalCount ==
    /\ cfg.variant \in EMAVariants
    /\ pc[Worker] = "count"
    /\ intervalCount' = intervalCount + 1
    /\ pc' = [pc EXCEPT ![Worker] = "select"]
    /\ UNCHANGED <<cfg, lock, arg, last, currentCounts, savedSampleRates, haveData,
                   requestCount, eventCount, tmpCounts, pending, ncalls, nticks,
                   completed, lastOutput, movingAverage, burstThreshold, currentBurstSum,
                   updating, burstCount, wake, bailed>>
    /\ UNCHANGED <<winVars, refVars, lifeVars>>

(***************************************************************************)
(* The block list.                                                         *)
(***************************************************************************)
MapPut(m, key, v) == [k \in DOMAIN m \cup {key} |-> IF k = key THEN v ELSE m[k]]

\* The position of the first element of idxs that is <= finish, 0 if none.
FirstAtOrBelow(idxs, finish) ==
    LET hits == {i \in 1..Len(idxs) : idxs[i] <= finish}
    IN  IF hits = {} THEN 0 ELSE CHOOSE i \in hits : \A j \in hits : i <= j

\* doIncrement: add n to key in the front block if it has index keyIndex, else
\* in a new front block.
doIncrement(bl, key, keyIndex, n) ==
    IF Len(bl) > 0 /\ bl[1].index = keyIndex
    THEN [bl EXCEPT ![1].keyToCount = MapAdd(@, key, n)]
    ELSE <<[index |-> keyIndex, keyToCount |-> MapAdd(EmptyMap, key, n)]>> \o bl

RECURSIVE KeySum(_, _)
KeySum(bl, k) ==
    IF bl = <<>> THEN 0
    ELSE (IF k \in DOMAIN Head(bl).keyToCount THEN Head(bl).keyToCount[k] ELSE 0)
         + KeySum(Tail(bl), k)

\* An aggregation that cuts the list only below finish, so that it keeps and
\* counts the block at finish.
doAggregationKeepFinish(bl, currentIndex, lookbackIndex) ==
    LET startIndex == currentIndex - 1
        finishIndex == startIndex - lookbackIndex
        cut == FirstAtOrBelow([i \in 1..Len(bl) |-> bl[i].index], finishIndex - 1)
        kept == IF cut = 0 THEN bl ELSE SubSeq(bl, 1, cut - 1)
        counted == SelectSeq(kept, LAMBDA b : b.index <= startIndex)
        keys == UNION {DOMAIN counted[i].keyToCount : i \in 1..Len(counted)}
    IN  [counts |-> [k \in keys |-> KeySum(counted, k)], blocks |-> kept]

\* doAggregation: walk from the front, add up the blocks with index <= start,
\* cut the list at the first block with index <= finish.
doAggregation(bl, currentIndex, lookbackIndex) ==
    LET startIndex == currentIndex - 1
        finishIndex == startIndex - lookbackIndex
        cut == FirstAtOrBelow([i \in 1..Len(bl) |-> bl[i].index], finishIndex)
        kept == IF cut = 0 THEN bl ELSE SubSeq(bl, 1, cut - 1)
        counted == SelectSeq(kept, LAMBDA b : b.index <= startIndex)
        keys == UNION {DOMAIN counted[i].keyToCount : i \in 1..Len(counted)}
    IN  [counts |-> [k \in keys |-> KeySum(counted, k)], blocks |-> kept]

\* tryInsert: refuse at maxKeys tracked keys; else record keyIndex for key
\* unless it is already the newest index recorded.
tryInsert(k2i, maxKeys, key, keyIndex) ==
    IF Size(k2i) >= maxKeys
    THEN [ok |-> FALSE, keyToIndexes |-> k2i]
    ELSE IF key \in DOMAIN k2i /\ Len(k2i[key]) > 0 /\ k2i[key][1] = keyIndex
    THEN [ok |-> TRUE, keyToIndexes |-> k2i]
    ELSE [ok |-> TRUE,
          keyToIndexes |-> MapPut(k2i, key,
                                  <<keyIndex>> \o (IF key \in DOMAIN k2i THEN k2i[key]
                                                   ELSE <<>>))]

\* An AggregateCounts that leaves keyToIndexes alone.
PruneIndexesSkipped(k2i, finishIndex) == k2i

\* The pruning loop of BoundedBlockList.AggregateCounts.
PruneIndexes(k2i, finishIndex) ==
    LET drop(k) == FirstAtOrBelow(k2i[k], finishIndex)
        keep == {k \in DOMAIN k2i : drop(k) # 1}
    IN  [k \in keep |-> IF drop(k) = 0 THEN k2i[k] ELSE SubSeq(k2i[k], 1, drop(k) - 1)]

\* IncrementKey of the list a sampler or a test holds: bounded iff maxKeys > 0.
\* n is what the increment adds to the key's count.
IncrementKey(maxKeys, bl, k2i, key, keyIndex, n) ==
    IF maxKeys > 0
    THEN LET ins == tryInsert(k2i, maxKeys, key, keyIndex)
         IN  IF ins.ok
             THEN [err |-> FALSE, blocks |-> doIncrement(bl, key, keyIndex, n),
                   keyToIndexes |-> ins.keyToIndexes]
             ELSE [err |-> TRUE, blocks |-> bl, keyToIndexes |-> k2i]
    ELSE [err |-> FALSE, blocks |-> doIncrement(bl, key, keyIndex, n),
          keyToIndexes |-> k2i]

\* AggregateCounts of the list a sampler or a test holds.
AggregateCounts(maxKeys, bl, k2i, currentIndex, lookbackIndex) ==
    LET agg == doAggregation(bl, currentIndex, lookbackIndex)
    IN  [counts |-> agg.counts, blocks |-> agg.blocks,
         keyToIndexes |-> IF maxKeys > 0
                          THEN PruneIndexes(k2i, currentIndex - 1 - lookbackIndex)
                          ELSE k2i]

(***************************************************************************)
(* WindowedThroughput.                                                     *)
(***************************************************************************)
\* The table updateMaps computes from the aggregate of the lookback window.
WindowedCompute(agg, lookbackMs, arch) ==
    LET totalGoalThroughput == Fx(GoalThroughputPerSec * lookbackMs)
        throughputPerKey == FMax(Fin(1), FDiv(totalGoalThroughput, Fin(Size(agg))))
    IN  [k \in DOMAIN agg |->
           IntOfFloat(FMax(Fin(1), FDiv(Fin(agg[k]), throughputPerKey)), arch)]

\* A lookup that gives a key without a saved rate 1, as the other samplers do.
WindowedLookupRateDefaultOne(saved, key) == IF key \in DOMAIN saved THEN saved[key] ELSE 1

\* The lookup at the end of GetSampleRateMulti: a key without a saved rate gets 0.
WindowedLookupRate(saved, key) == IF key \in DOMAIN saved THEN saved[key] ELSE 0

\* A caller enters GetSampleRateMulti(key, count).
Windowed_Enter(c, key, count) ==
    /\ cfg.variant = "WindowedThroughput"
    /\ pc[c] = "idle"
    /\ ncalls < MaxWindowedCalls
    /\ arg' = [arg EXCEPT ![c] = [key |-> key, count |-> count]]
    /\ pc' = [pc EXCEPT ![c] = "count"]
    /\ ncalls' = ncalls + 1
    /\ UNCHANGED <<cfg, lock, last, currentCounts, savedSampleRates, haveData,
                   requestCount, eventCount, tmpCounts, pending, nticks, completed,
                   lastOutput, emaVars, winVars, refVars, lifeVars>>

\* Another caller is at its own requestCount++ / eventCount += count, which
\* no lock orders with caller c's.
CountsUnordered(c) == \E d \in Callers \ {c} : pc[d] = "count"

\* The outcomes of an unsynchronized x += n: the sum is stored, or, when
\* another thread's read-modify-write of x overlaps, that thread's store
\* replaces it and this addition is lost.
RacyAdd(x, n, overlap) == IF overlap THEN {x + n, x} ELSE {x + n}

\* requestCount++, eventCount += count and current := GetCurrentIndex(), all
\* before any lock is taken.
Windowed_Count(c) ==
    /\ cfg.variant = "WindowedThroughput"
    /\ pc[c] = "count"
    /\ requestCount' \in RacyAdd(requestCount, 1, CountsUnordered(c))
    /\ eventCount' \in RacyAdd(eventCount, arg[c].count, CountsUnordered(c))
    /\ cur' = [cur EXCEPT ![c] = now]
    /\ pc' = [pc EXCEPT ![c] = "increment"]
    /\ UNCHANGED <<cfg, lock, arg, last, currentCounts, savedSampleRates, haveData,
                   tmpCounts, pending, ncalls, nticks, completed, lastOutput, emaVars,
                   blocks, keyToIndexes, now, numKeys, refVars, lifeVars>>

\* The events the list has accepted, per key the index of each: n more events
\* of key at keyIndex.
Counted(rec, key, keyIndex, n) ==
    MapPut(rec, key, [i \in 1..n |-> keyIndex]
                       \o (IF key \in DOMAIN rec THEN rec[key] ELSE <<>>))

\* countList.IncrementKey(key, current, count) under the list's own lock; on
\* an error the call returns 0 at once.
Windowed_IncrementKey(c) ==
    /\ cfg.variant = "WindowedThroughput"
    /\ pc[c] = "increment"
    /\ LET res == IncrementKey(cfg.maxKeys, blocks, keyToIndexes, arg[c].key, cur[c],
                               arg[c].count)
       IN  /\ blocks' = res.blocks
           /\ keyToIndexes' = res.keyToIndexes
           /\ IF res.err
              THEN /\ last' = [valid |-> TRUE, rate |-> 0]
                   /\ arg' = [arg EXCEPT ![c] = NoCall]
                   /\ pc' = [pc EXCEPT ![c] = "idle"]
              ELSE /\ pc' = [pc EXCEPT ![c] = "lookup"]
                   /\ UNCHANGED <<last, arg>>
           /\ records' = IF res.err THEN records
                         ELSE Counted(records, arg[c].key, cur[c], arg[c].count)
    /\ cur' = [cur EXCEPT ![c] = 0]
    /\ UNCHANGED <<cfg, lock, currentCounts, savedSampleRates, haveData, requestCount,
                   eventCount, tmpCounts, pending, ncalls, nticks, completed, lastOutput,
                   emaVars, now, numKeys, lastInc, lastAgg, ordered, top, nops, lifeVars>>

\* The lookup in savedSampleRates under the sampler lock, and the return.
Windowed_Lookup(c) ==
    /\ cfg.variant = "WindowedThroughput"
    /\ pc[c] = "lookup"
    /\ CanLock(c)
    /\ last' = [valid |-> TRUE,
                rate |-> WindowedLookupRate(savedSampleRates, arg[c].key)]
    /\ arg' = [arg EXCEPT ![c] = NoCall]
    /\ pc' = [pc EXCEPT ![c] = "idle"]
    /\ UNCHANGED <<cfg, lock, currentCounts, savedSampleRates, haveData, requestCount,
                   eventCount, tmpCounts, pending, ncalls, nticks, completed, lastOutput,
                   emaVars, winVars, refVars, lifeVars>>

\* Time passes: GetCurrentIndex() moves to the next index.
AdvanceTime ==
    /\ cfg.variant = "WindowedThroughput"
    /\ now < MaxIndex
    /\ now' = now + 1
    /\ UNCHANGED <<cfg, lock, pc, arg, last, currentCounts, savedSampleRates, haveData,
                   requestCount, eventCount, tmpCounts, pending, ncalls, nticks,
                   completed, lastOutput, emaVars, blocks, keyToIndexes, numKeys, cur,
                   refVars, lifeVars>>

\* case <-ticker.C of the worker's select.
Windowed_Tick ==
    /\ cfg.variant = "WindowedThroughput"
    /\ pc[Worker] = "select"
    /\ nticks < MaxTicks
    /\ nticks' = nticks + 1
    /\ pc' = [pc EXCEPT ![Worker] = "aggregate"]
    /\ UNCHANGED <<cfg, lock, arg, last, currentCounts, savedSampleRates, haveData,
                   requestCount, eventCount, tmpCounts, pending, ncalls, completed,
                   lastOutput, emaVars, winVars, refVars, lifeVars>>

\* updateMaps up to its critical section: the aggregation under the list's
\* lock, numKeys written without the sampler lock, the new table computed.
Windowed_Aggregate ==
    /\ cfg.variant = "WindowedThroughput"
    /\ pc[Worker] = "aggregate"
    /\ LET agg == AggregateCounts(cfg.maxKeys, blocks, keyToIndexes, now, LookbackIndexes)
       IN  /\ blocks' = agg.blocks
           /\ keyToIndexes' = agg.keyToIndexes
           /\ numKeys' = Size(agg.counts)
           /\ tmpCounts' = agg.counts
           /\ pending' = [rates |-> WindowedCompute(agg.counts, LookbackIndexes * cfg.ms,
                                                    cfg.arch),
                          have |-> FALSE, low |-> FALSE]
    /\ pc' = [pc EXCEPT ![Worker] = "publish"]
    /\ UNCHANGED <<cfg, lock, arg, last, currentCounts, savedSampleRates, haveData,
                   requestCount, eventCount, ncalls, nticks, completed,
                   lastOutput, emaVars, now, cur, refVars, lifeVars>>

\* updateMaps, critical section: the new table replaces savedSampleRates.
Windowed_Publish ==
    /\ cfg.variant = "WindowedThroughput"
    /\ pc[Worker] = "publish"
    /\ CanLock(Worker)
    /\ savedSampleRates' = Publish(savedSampleRates, pending.rates)
    /\ lastOutput' = [rates |-> pending.rates, low |-> pending.low]
    /\ completed' = completed + 1
    /\ pending' = NoPending
    /\ tmpCounts' = EmptyMap
    /\ pc' = [pc EXCEPT ![Worker] = "select"]
    /\ UNCHANGED <<cfg, lock, arg, last, currentCounts, haveData, requestCount,
                   eventCount, ncalls, nticks, emaVars, winVars, refVars, lifeVars>>

(***************************************************************************)
(* The reference implementation of the block list's tests, and the test    *)
(* step that makes each operation on the list and on the reference.        *)
(***************************************************************************)
\* AtomicRecord.IncrementKey.
RefIncrementKey(rec, maxKeys, key, keyIndex) ==
    IF Size(rec) >= maxKeys
    THEN [err |-> TRUE, records |-> rec]
    ELSE [err |-> FALSE,
          records |-> MapPut(rec, key,
                             <<keyIndex>> \o (IF key \in DOMAIN rec THEN rec[key]
                                              ELSE <<>>))]

\* AtomicRecord.AggregateCounts: per key, count the indexes in
\* (finish, start] and truncate the record at the first index <= finish.
RefAggregateCounts(rec, currentIndex, lookbackIndex) ==
    LET startIndex == currentIndex - 1
        finishIndex == startIndex - lookbackIndex
        inWindow(k) == {i \in 1..Len(rec[k]) :
                          rec[k][i] <= startIndex /\ rec[k][i] > finishIndex}
        lastIndex(k) == FirstAtOrBelow(rec[k], finishIndex)
        keep == {k \in DOMAIN rec : lastIndex(k) # 1}
    IN  [counts |-> [k \in {x \in DOMAIN rec : inWindow(x) # {}} |->
                       Cardinality(inWindow(k))],
         records |-> [k \in keep |-> IF lastIndex(k) = 0 THEN rec[k]
                                     ELSE SubSeq(rec[k], 1, lastIndex(k) - 1)]]

\* The capacity the tests give the reference of an unbounded list: one that the
\* keys in use never reach.
RefCapacity == Cardinality(Keys) + 1
RefMaxKeys == IF cfg.maxKeys > 0 THEN cfg.maxKeys ELSE RefCapacity

samplerVars == <<lock, pc, arg, last, currentCounts, savedSampleRates, haveData,
                 requestCount, eventCount, tmpCounts, pending, ncalls, nticks,
                 completed, lastOutput, emaVars, now, numKeys, cur>>

BlockListConfigs ==
    [variant : {"BlockList"}, maxKeys : {0, 1, 2}, ms : {1000}, arch : {"amd64"}]

\* A fresh list (unbounded when maxKeys = 0) and a fresh reference.
InitTest ==
    /\ cfg \in BlockListConfigs
    /\ InitSampler
    /\ InitBlockList
    /\ InitStarted
    /\ InitExtras

\* IncrementKey(key, keyIndex) on the reference and on the list.
TestIncrementKey(key, keyIndex) ==
    /\ cfg.variant = "BlockList"
    /\ nops < MaxOps
    /\ LET ref == RefIncrementKey(records, RefMaxKeys, key, keyIndex)
           res == IncrementKey(cfg.maxKeys, blocks, keyToIndexes, key, keyIndex, 1)
       IN  /\ records' = ref.records
           /\ blocks' = res.blocks
           /\ keyToIndexes' = res.keyToIndexes
           /\ lastInc' = [valid |-> TRUE,
                          tracked |-> key \in DOMAIN keyToIndexes,
                          room |-> Size(keyToIndexes) < cfg.maxKeys,
                          err |-> res.err,
                          refErr |-> ref.err,
                          same |-> res.blocks = blocks /\ res.keyToIndexes = keyToIndexes]
    /\ ordered' = (ordered /\ keyIndex >= top)
    /\ top' = IF keyIndex > top THEN keyIndex ELSE top
    /\ nops' = nops + 1
    /\ UNCHANGED <<cfg, samplerVars, lastAgg, lifeVars>>

\* AggregateCounts(currentIndex, lookbackIndex) on the reference and on the list.
TestAggregateCounts(currentIndex, lookbackIndex) ==
    /\ cfg.variant = "BlockList"
    /\ nops < MaxOps
    /\ LET ref == RefAggregateCounts(records, currentIndex, lookbackIndex)
           res == AggregateCounts(cfg.maxKeys, blocks, keyToIndexes, currentIndex,
                                  lookbackIndex)
       IN  /\ records' = ref.records
           /\ blocks' = res.blocks
           /\ keyToIndexes' = res.keyToIndexes
           /\ lastAgg' = [valid |-> TRUE, counts |-> res.counts, refCounts |-> ref.counts,
                          finish |-> currentIndex - 1 - lookbackIndex,
                          dropped |-> [i \in 1..(Len(blocks) - Len(res.blocks)) |->
                                         blocks[Len(res.blocks) + i].index]]
    /\ nops' = nops + 1
    /\ UNCHANGED <<cfg, samplerVars, lastInc, ordered, top, lifeVars>>

NextBlockList ==
    \/ \E key \in Keys, keyIndex \in 0..MaxKeyIndex : TestIncrementKey(key, keyIndex)
    \/ \E currentIndex \in 0..(MaxKeyIndex + 1), lookbackIndex \in 0..MaxLookback :
          TestAggregateCounts(currentIndex, lookbackIndex)

SpecBlockList == InitTest /\ [][NextBlockList]_vars

Next ==
    \/ \E c \in Callers, key \in Keys, count \in Counts :
          GetSampleRateMulti_Lock(c, key, count)
    \/ \E c \in Callers : GetSampleRateMulti_Increment(c)
    \/ \E c \in Callers : GetSampleRateMulti_Return(c)
    \/ Tick
    \/ UpdateMaps_Snapshot
    \/ UpdateMaps_Publish
    \/ EMATick
    \/ EMAUpdateMaps_Begin
    \/ EMAUpdateMaps_UpdateEMA
    \/ EMAUpdateMaps_Threshold
    \/ EMAUpdateMaps_Publish
    \/ EMAIntervalCount
    \/ \E c \in Callers, key \in Keys, count \in Counts : Windowed_Enter(c, key, count)
    \/ \E c \in Callers : Windowed_Count(c)
    \/ \E c \in Callers : Windowed_IncrementKey(c)
    \/ \E c \in Callers : Windowed_Lookup(c)
    \/ AdvanceTime
    \/ Windowed_Tick
    \/ Windowed_Aggregate
    \/ Windowed_Publish

Spec == Init /\ [][Next]_vars

(***************************************************************************)
(* Start and Stop of every sampler, and the OnlyOnce sampler.              *)
(***************************************************************************)
\* Total number of Stop calls in one behaviour.
MaxStops == 2

\* time.Second and time.Millisecond, in microseconds.
Second == 1000000
Millisecond == 1000
\* The default clear frequency and the default adjustment interval, in seconds.
DefaultClearFrequency == 30
DefaultAdjustmentInterval == 15
\* What OnlyOnce returns for a key it has seen.
OnceRate == 1000000000

\* The samplers configured by ClearFrequencySec / ClearFrequencyDuration.
ClearFrequencyVariants == CountVariants \cup {"OnlyOnce"}

\* The interval fields explored: [sec, dur], the deprecated integer seconds and
\* the duration.  EMAThroughput has the duration only; a sub-millisecond one
\* is tried on it alone.
IntervalFields(v) ==
    IF v = "EMAThroughput"
    THEN [sec : {0}, dur : {0, Millisecond \div 2, Second, -Second}]
    ELSE IF v = "WindowedThroughput"
    THEN [sec : {0}, dur : {0, Second}]
    ELSE [sec : {0, 1, -1}, dur : {0, Second, -Second}]

\* A Start that accepts every configuration.
StartFailsNever(v, sec, dur) == FALSE

\* The configuration test at the head of Start: TRUE when Start returns an error.
StartFails(v, sec, dur) ==
    IF v = "EMAThroughput"
    THEN (IF dur = 0 THEN DefaultAdjustmentInterval * Second ELSE dur) < Millisecond
    ELSE IF v = "WindowedThroughput" THEN FALSE
    ELSE dur # 0 /\ sec # 0

\* The duration field as Start leaves it when it does not fail.
EffectiveInterval(v, sec, dur) ==
    IF v = "WindowedThroughput" THEN (IF dur = 0 THEN Second ELSE dur)
    ELSE IF v = "EMAThroughput"
    THEN (IF dur = 0 THEN DefaultAdjustmentInterval * Second ELSE dur)
    ELSE IF dur = 0 /\ sec = 0
    THEN (IF v = "EMASampleRate" THEN DefaultAdjustmentInterval
          ELSE DefaultClearFrequency) * Second
    ELSE IF sec # 0 THEN sec * Second
    ELSE dur

\* LookbackFrequencyDuration with its default applied: 30 update periods.
EffectiveLookback(update, lookback) == IF lookback = 0 THEN 30 * update ELSE lookback

\* A Start that leaves the lookback as configured.
LookbackUnfloored(update, lookback) == EffectiveLookback(update, lookback)

\* LookbackFrequencyDuration as Start leaves it: the update period times the
\* integer quotient, which Go truncates toward zero.
FlooredLookback(update, lookback) ==
    update * TruncDiv(EffectiveLookback(update, lookback), update)

\* OnlyOnce returns from Start before making seen and done, and before
\* spawning the worker, when the interval is negative.
SpawnsWorker(v, interval) == ~(v = "OnlyOnce" /\ interval < 0)

\* The period the recompute works with, in milliseconds.
PeriodMs(v, f) ==
    IF ~StartFails(v, f.sec, f.dur) /\ EffectiveInterval(v, f.sec, f.dur) > 0
    THEN EffectiveInterval(v, f.sec, f.dur) \div Millisecond
    ELSE Second \div Millisecond

LifecycleVariants == Variants \cup {"OnlyOnce"}

\* A sampler struct with its configuration set, before Start.
InitLifecycle ==
    /\ \E v \in LifecycleVariants : \E f \in IntervalFields(v) :
          /\ cfg = [variant |-> v, maxKeys |-> 0, ms |-> PeriodMs(v, f), arch |-> "amd64"]
          /\ conf = f
    /\ pc = [t \in Threads |-> IF t = Worker THEN "none" ELSE "unstarted"]
    /\ InitFields
    /\ InitBlockList
    /\ started = "no"
    /\ workers = 0
    /\ done = "nil"
    /\ stops = 0
    /\ panic = "none"
    /\ seen = NilSeen
    /\ InitExtras

\* Start(): the configuration test, the defaults, the maps and channels, and
\* the go statement.
Start ==
    /\ started = "no"
    /\ IF StartFails(cfg.variant, conf.sec, conf.dur)
       THEN /\ started' = "err"
            /\ UNCHANGED <<conf, workers, done, seen, pc>>
       ELSE LET d == EffectiveInterval(cfg.variant, conf.sec, conf.dur)
            IN  /\ started' = "ok"
                /\ conf' = [conf EXCEPT !.dur = d]
                /\ IF SpawnsWorker(cfg.variant, d)
                   THEN /\ workers' = workers + 1
                        /\ done' = "open"
                        /\ seen' = IF cfg.variant = "OnlyOnce"
                                   THEN [isNil |-> FALSE, keys |-> {}]
                                   ELSE seen
                        /\ pc' = [t \in Threads |->
                                    IF t = Worker THEN "ticker" ELSE "idle"]
                   ELSE /\ pc' = [t \in Threads |->
                                    IF t = Worker THEN "none" ELSE "idle"]
                        /\ UNCHANGED <<workers, done, seen>>
    /\ UNCHANGED <<cfg, lock, arg, last, currentCounts, savedSampleRates, haveData,
                   requestCount, eventCount, tmpCounts, pending, ncalls, nticks,
                   completed, lastOutput, emaVars, winVars, refVars>>
    /\ UNCHANGED <<stops, panic, state, restored, loaded, prefix, mets>>
    /\ lookbackFrequencyDuration' =
          IF cfg.variant = "WindowedThroughput"
          THEN FlooredLookback(EffectiveInterval(cfg.variant, conf.sec, conf.dur),
                               lookbackFrequencyDuration)
          ELSE lookbackFrequencyDuration
    /\ UNCHANGED <<calc, burstMultiple, ticker>>

\* A panic nobody recovers ends the process: no thread takes another step.
Crashed == [t \in Threads |-> "crashed"]

\* time.NewTicker(interval) at the head of the worker: it panics when the
\* interval is not positive.
WorkerNewTicker ==
    /\ pc[Worker] = "ticker"
    /\ IF conf.dur > 0
       THEN /\ pc' = [pc EXCEPT ![Worker] = "select"]
            /\ panic' = panic
       ELSE /\ pc' = Crashed
            /\ panic' = "non-positive interval for NewTicker"
    /\ UNCHANGED <<cfg, lock, arg, last, currentCounts, savedSampleRates, haveData,
                   requestCount, eventCount, tmpCounts, pending, ncalls, nticks,
                   completed, lastOutput, emaVars, winVars, refVars>>
    /\ UNCHANGED <<conf, started, workers, done, stops, seen, state, restored, loaded,
                   prefix, mets>>
    /\ UNCHANGED funVars

\* Stop(): close(done) and return; OnlyOnce skips the close when done is nil.
\* Closing a closed channel panics.
Stop ==
    /\ started = "ok"
    /\ panic = "none"
    /\ stops < MaxStops
    /\ IF done = "closed"
       THEN /\ pc' = Crashed
            /\ panic' = "close of closed channel"
            /\ UNCHANGED <<done, stops>>
       ELSE /\ done' = IF done = "open" THEN "closed" ELSE done
            /\ stops' = stops + 1
            /\ UNCHANGED <<pc, panic>>
    /\ UNCHANGED <<cfg, lock, arg, last, currentCounts, savedSampleRates, haveData,
                   requestCount, eventCount, tmpCounts, pending, ncalls, nticks,
                   completed, lastOutput, emaVars, winVars, refVars>>
    /\ UNCHANGED <<conf, started, workers, seen, state, restored, loaded, prefix, mets>>
    /\ UNCHANGED funVars

\* A worker that never takes the done case of its select.
WorkerDoneIgnored ==
    /\ pc[Worker] = "select"
    /\ done = "closed"
    /\ UNCHANGED vars

\* case <-done of the worker's select: the goroutine returns.
WorkerDone ==
    /\ pc[Worker] = "select"
    /\ done = "closed"
    /\ pc' = [pc EXCEPT ![Worker] = "exited"]
    /\ UNCHANGED <<cfg, lock, arg, last, currentCounts, savedSampleRates, haveData,
                   requestCount, eventCount, tmpCounts, pending, ncalls, nticks,
                   completed, lastOutput, emaVars, winVars, refVars, lifeVars>>

\* lock.Lock() at the head of OnlyOnce.GetSampleRateMulti(key, count).
OnlyOnce_Lock(c, key, count) ==
    /\ cfg.variant = "OnlyOnce"
    /\ pc[c] = "idle"
    /\ ncalls < MaxCalls
    /\ CanLock(c)
    /\ lock' = c
    /\ arg' = [arg EXCEPT ![c] = [key |-> key, count |-> count]]
    /\ pc' = [pc EXCEPT ![c] = "seen"]
    /\ ncalls' = ncalls + 1
    /\ UNCHANGED <<cfg, last, currentCounts, savedSampleRates, haveData, requestCount,
                   eventCount, tmpCounts, pending, nticks, completed, lastOutput, emaVars,
                   winVars, refVars, lifeVars>>

\* requestCount++, eventCount += count and the lookup _, found := seen[key];
\* a nil map reads as empty.
OnlyOnce_Lookup(c) ==
    /\ cfg.variant = "OnlyOnce"
    /\ pc[c] = "seen"
    /\ requestCount' = requestCount + 1
    /\ eventCount' = eventCount + arg[c].count
    /\ pc' = [pc EXCEPT ![c] = IF arg[c].key \in seen.keys THEN "found" ELSE "insert"]
    /\ UNCHANGED <<cfg, lock, arg, last, currentCounts, savedSampleRates, haveData,
                   tmpCounts, pending, ncalls, nticks, completed, lastOutput, emaVars,
                   winVars, refVars, lifeVars>>

\* return 1000000000 for a key found; else seen[key] = true and return 1.  The
\* assignment panics on a nil map.  The deferred Unlock runs on the way out.
OnlyOnce_Return(c) ==
    /\ cfg.variant = "OnlyOnce"
    /\ pc[c] \in {"found", "insert"}
    /\ IF pc[c] = "insert" /\ seen.isNil
       THEN /\ pc' = Crashed
            /\ panic' = "assignment to entry in nil map"
            /\ UNCHANGED <<last, arg, seen>>
       ELSE /\ last' = [valid |-> TRUE,
                        rate |-> IF pc[c] = "found" THEN OnceRate ELSE 1]
            /\ seen' = IF pc[c] = "insert"
                       THEN [seen EXCEPT !.keys = @ \cup {arg[c].key}]
                       ELSE seen
            /\ arg' = [arg EXCEPT ![c] = NoCall]
            /\ pc' = [pc EXCEPT ![c] = "idle"]
            /\ panic' = panic
    /\ lock' = NoThread
    /\ UNCHANGED <<cfg, currentCounts, savedSampleRates, haveData, requestCount,
                   eventCount, tmpCounts, pending, ncalls, nticks, completed, lastOutput,
                   emaVars, winVars, refVars>>
    /\ UNCHANGED <<conf, started, workers, done, stops, state, restored, loaded, prefix,
                   mets>>
    /\ UNCHANGED funVars

\* case <-ticker.C of the OnlyOnce worker's select.
OnlyOnce_Tick ==
    /\ cfg.variant = "OnlyOnce"
    /\ pc[Worker] = "select"
    /\ nticks < MaxTicks
    /\ nticks' = nticks + 1
    /\ pc' = [pc EXCEPT ![Worker] = "clear"]
    /\ UNCHANGED <<cfg, lock, arg, last, currentCounts, savedSampleRates, haveData,
                   requestCount, eventCount, tmpCounts, pending, ncalls, completed,
                   lastOutput, emaVars, winVars, refVars, lifeVars>>

\* OnlyOnce.updateMaps: under the lock, seen = make(map[string]bool).
OnlyOnce_UpdateMaps ==
    /\ cfg.variant = "OnlyOnce"
    /\ pc[Worker] = "clear"
    /\ CanLock(Worker)
    /\ seen' = [isNil |-> FALSE, keys |-> {}]
    /\ completed' = completed + 1
    /\ pc' = [pc EXCEPT ![Worker] = "select"]
    /\ UNCHANGED <<cfg, lock, arg, last, currentCounts, savedSampleRates, haveData,
                   requestCount, eventCount, tmpCounts, pending, ncalls, nticks,
                   lastOutput, emaVars, winVars, refVars>>
    /\ UNCHANGED <<conf, started, workers, done, stops, panic, state, restored, loaded,
                   prefix, mets>>
    /\ UNCHANGED funVars

NextLifecycle ==
    \/ Start
    \/ WorkerNewTicker
    \/ Stop
    \/ WorkerDone
    \/ \E c \in Callers, key \in Keys, count \in Counts : OnlyOnce_Lock(c, key, count)
    \/ \E c \in Callers : OnlyOnce_Lookup(c)
    \/ \E c \in Callers : OnlyOnce_Return(c)
    \/ OnlyOnce_Tick
    \/ OnlyOnce_UpdateMaps
    \/ \E c \in Callers, key \in Keys, count \in Counts :
          GetSampleRateMulti_Lock(c, key, count)
    \/ \E c \in Callers : GetSampleRateMulti_Increment(c)
    \/ \E c \in Callers : GetSampleRateMulti_Return(c)
    \/ Tick
    \/ UpdateMaps_Snapshot
    \/ UpdateMaps_Publish
    \/ EMATick
    \/ EMAUpdateMaps_Begin
    \/ EMAUpdateMaps_UpdateEMA
    \/ EMAUpdateMaps_Threshold
    \/ EMAUpdateMaps_Publish
    \/ EMAIntervalCount

SpecLifecycle == InitLifecycle /\ [][NextLifecycle]_vars

\* The OnlyOnce sampler alone: Start, the callers, the clearing worker, Stop.
InitOnlyOnce ==
    /\ InitLifecycle
    /\ cfg.variant = "OnlyOnce"

NextOnlyOnce ==
    \/ Start
    \/ WorkerNewTicker
    \/ Stop
    \/ WorkerDone
    \/ \E c \in Callers, key \in Keys, count \in Counts : OnlyOnce_Lock(c, key, count)
    \/ \E c \in Callers : OnlyOnce_Lookup(c)
    \/ \E c \in Callers : OnlyOnce_Return(c)
    \/ OnlyOnce_Tick
    \/ OnlyOnce_UpdateMaps

SpecOnlyOnce == InitOnlyOnce /\ [][NextOnlyOnce]_vars

\* Start of every sampler, and what its worker does when no call is made.
NextStart ==
    \/ Start
    \/ WorkerNewTicker
    \/ Stop
    \/ WorkerDone
    \/ OnlyOnce_Tick
    \/ OnlyOnce_UpdateMaps
    \/ Tick
    \/ UpdateMaps_Snapshot
    \/ UpdateMaps_Publish
    \/ EMATick
    \/ EMAUpdateMaps_Begin
    \/ EMAIntervalCount
    \/ Windowed_Tick
    \/ Windowed_Aggregate
    \/ Windowed_Publish

SpecStart == InitLifecycle /\ [][NextStart]_vars

(***************************************************************************)
(* The EMA samplers alone: callers, burst signal and worker.               *)
(***************************************************************************)
InitEMA ==
    /\ Init
    /\ cfg.variant \in EMAVariants

\* The next step of a caller that is inside GetSampleRateMulti.
CallerStep(c) ==
    \/ GetSampleRateMulti_Increment(c)
    \/ GetSampleRateMulti_Return(c)

\* The next step of the worker once its select has fired.
WorkerStep ==
    \/ EMAUpdateMaps_Begin
    \/ EMAUpdateMaps_UpdateEMA
    \/ EMAUpdateMaps_Threshold
    \/ EMAUpdateMaps_Publish
    \/ EMAIntervalCount

NextEMA ==
    \/ \E c \in Callers, key \in Keys, count \in Counts :
          GetSampleRateMulti_Lock(c, key, count)
    \/ \E c \in Callers : CallerStep(c)
    \/ EMATick
    \/ WorkerStep

SpecEMA == InitEMA /\ [][NextEMA]_vars

(***************************************************************************)
(* SaveState and LoadState: encoding/json on the state structs.            *)
(***************************************************************************)
\* Total number of LoadState calls in one behaviour.
MaxLoads == 2

\* The samplers that implement SaveState and LoadState.
StateVariants == {"AvgSampleRate", "EMASampleRate", "EMAThroughput"}

\* A JSON number: digits before and after the decimal point.  An int has no
\* fraction; a float64 (in thousandths) is written with the digits needed to
\* read it back.
EncodeInt(n) == [int |-> n, frac |-> 0]
EncodeFloat(x) == [int |-> x \div Scale, frac |-> x % Scale]
\* A float64 written without its fraction.
EncodeFloatTruncated(x) == [int |-> x \div Scale, frac |-> 0]
DecodeInt(num) == num.int
DecodeFloat(num) == num.int * Scale + num.frac

\* A map as a JSON object: its members in sorted key order.
EncodeMap(m, Enc(_)) ==
    LET keys == SortedKeys(m)
    IN  [i \in 1..Len(keys) |-> [key |-> keys[i], num |-> Enc(m[keys[i]])]]

DecodeMap(object, Dec(_)) ==
    [k \in {object[i].key : i \in 1..Len(object)} |->
        Dec(object[CHOOSE i \in 1..Len(object) : object[i].key = k].num)]

\* json.Marshal of avgSampleRateState / emaSampleRateState / emaThroughputState.
Marshal(v, saved, avg) ==
    [syntax |-> TRUE,
     fields |-> <<[name |-> "saved_sample_rates", object |-> EncodeMap(saved, EncodeInt)]>>
                \o (IF v \in EMAVariants
                    THEN <<[name |-> "moving_average",
                            object |-> EncodeMap(avg, EncodeFloat)]>>
                    ELSE <<>>)]

\* Bytes that are no JSON document (cut short).
Truncated == [syntax |-> FALSE, fields |-> <<>>]
\* {"saved_sample_rates": {"a": 1.5}}: a document with a rate that is no int.
WrongType ==
    [syntax |-> TRUE,
     fields |-> <<[name |-> "saved_sample_rates",
                   object |-> <<[key |-> "a", num |-> [int |-> 1, frac |-> Scale \div 2]]>>]>>]
\* {}: a document without either member.
EmptyDocument == [syntax |-> TRUE, fields |-> <<>>]

Member(bytes, name) == {i \in 1..Len(bytes.fields) : bytes.fields[i].name = name}

\* json.Unmarshal into the state struct: a member that is absent leaves its
\* map nil; a fraction where an int is wanted is an error.
Unmarshal(v, bytes) ==
    LET rates == Member(bytes, "saved_sample_rates")
        avgs == IF v \in EMAVariants THEN Member(bytes, "moving_average") ELSE {}
        ratesObject == bytes.fields[CHOOSE i \in rates : TRUE].object
        avgObject == bytes.fields[CHOOSE i \in avgs : TRUE].object
    IN  [err |-> \/ ~bytes.syntax
                 \/ /\ rates # {}
                    /\ \E i \in 1..Len(ratesObject) : ratesObject[i].num.frac # 0,
         savedNil |-> rates = {},
         saved |-> IF rates = {} THEN EmptyMap ELSE DecodeMap(ratesObject, DecodeInt),
         avgNil |-> avgs = {},
         avg |-> IF avgs = {} THEN EmptyMap ELSE DecodeMap(avgObject, DecodeFloat)]

\* SaveState on a sampler with these fields: an error for a nil map.
SaveStateOf(v, savedNil, saved, avgNil, avg) ==
    IF savedNil \/ (v \in EMAVariants /\ avgNil)
    THEN [err |-> TRUE, bytes |-> Truncated]
    ELSE [err |-> FALSE, bytes |-> Marshal(v, saved, avg)]

\* A LoadState that assigns what it decoded whether or not decoding failed.
LoadStateUnchecked(v, r, dec) ==
    [r EXCEPT !.savedNil = dec.savedNil, !.saved = dec.saved,
              !.avgNil = IF v \in EMAVariants THEN dec.avgNil ELSE @,
              !.avg = IF v \in EMAVariants THEN dec.avg ELSE @,
              !.have = TRUE]

\* LoadState: the sampler r after loading what Unmarshal returned.
LoadStateOf(v, r, dec) ==
    IF dec.err THEN r
    ELSE [r EXCEPT !.savedNil = dec.savedNil, !.saved = dec.saved,
                   !.avgNil = IF v \in EMAVariants THEN dec.avgNil ELSE @,
                   !.avg = IF v \in EMAVariants THEN dec.avg ELSE @,
                   !.have = TRUE]

\* A Start that makes fresh maps whatever was loaded.
StartOverwrites(isNil, m) == EmptyMap

\* Start: if e.savedSampleRates == nil { make }, and the same for movingAverage.
StartKeeps(isNil, m) == IF isNil THEN EmptyMap ELSE m

\* SaveState() on the running sampler, under its mutex.
SaveState ==
    /\ cfg.variant \in StateVariants
    /\ ~state.valid
    /\ CanLock(Worker)
    /\ LET res == SaveStateOf(cfg.variant, FALSE, savedSampleRates, FALSE, movingAverage)
       IN  state' = [valid |-> TRUE, err |-> res.err, bytes |-> res.bytes,
                     saved |-> savedSampleRates, avg |-> movingAverage,
                     have |-> haveData]
    /\ UNCHANGED <<cfg, lock, pc, arg, last, currentCounts, savedSampleRates, haveData,
                   requestCount, eventCount, tmpCounts, pending, ncalls, nticks,
                   completed, lastOutput, emaVars, winVars, refVars>>
    /\ UNCHANGED <<conf, started, workers, done, stops, panic, seen, restored, loaded,
                   prefix, mets>>
    /\ UNCHANGED funVars

\* LoadState(bytes) on the second sampler.
LoadState(bytes, fromSave) ==
    /\ cfg.variant \in StateVariants
    /\ loaded.n < MaxLoads
    /\ ~restored.started
    /\ LET dec == Unmarshal(cfg.variant, bytes)
       IN  /\ restored' = LoadStateOf(cfg.variant, restored, dec)
           /\ loaded' = [n |-> loaded.n + 1, op |-> "load", unset |-> FALSE,
                         bytes |-> FALSE, given |-> bytes, err |-> dec.err,
                         fromSave |-> fromSave,
                         saved |-> IF fromSave THEN state.saved ELSE EmptyMap,
                         avg |-> IF fromSave THEN state.avg ELSE EmptyMap,
                         have |-> IF fromSave THEN state.have ELSE FALSE]
    /\ UNCHANGED <<cfg, lock, pc, arg, last, currentCounts, savedSampleRates, haveData,
                   requestCount, eventCount, tmpCounts, pending, ncalls, nticks,
                   completed, lastOutput, emaVars, winVars, refVars>>
    /\ UNCHANGED <<conf, started, workers, done, stops, panic, seen, state, prefix, mets>>
    /\ UNCHANGED funVars

\* LoadState with the bytes the running sampler's SaveState returned.
LoadSaved ==
    /\ state.valid
    /\ ~state.err
    /\ LoadState(state.bytes, TRUE)

\* LoadState with bytes from elsewhere.
LoadOther == \E bytes \in {Truncated, WrongType, EmptyDocument} : LoadState(bytes, FALSE)

\* Start() on the second sampler, with the default configuration.
RestoredStart ==
    /\ cfg.variant \in StateVariants
    /\ ~restored.started
    /\ restored' = [restored EXCEPT
                      !.started = TRUE,
                      !.saved = StartKeeps(restored.savedNil, restored.saved),
                      !.savedNil = FALSE,
                      !.avg = IF cfg.variant \in EMAVariants
                              THEN StartKeeps(restored.avgNil, restored.avg) ELSE @,
                      !.avgNil = IF cfg.variant \in EMAVariants THEN FALSE ELSE @]
    /\ UNCHANGED <<cfg, lock, pc, arg, last, currentCounts, savedSampleRates, haveData,
                   requestCount, eventCount, tmpCounts, pending, ncalls, nticks,
                   completed, lastOutput, emaVars, winVars, refVars>>
    /\ UNCHANGED <<conf, started, workers, done, stops, panic, seen, state, loaded,
                   prefix, mets>>
    /\ UNCHANGED funVars

\* SaveState() on the second sampler.
RestoredSaveState ==
    /\ cfg.variant \in StateVariants
    /\ loaded.op # "save"
    /\ LET res == SaveStateOf(cfg.variant, restored.savedNil, restored.saved,
                              restored.avgNil, restored.avg)
       IN  loaded' = [NoLoad EXCEPT
                        !.n = loaded.n, !.op = "save", !.err = res.err,
                        !.unset = restored.savedNil
                                    \/ (cfg.variant \in EMAVariants /\ restored.avgNil),
                        !.bytes = res.bytes.syntax]
    /\ UNCHANGED <<cfg, lock, pc, arg, last, currentCounts, savedSampleRates, haveData,
                   requestCount, eventCount, tmpCounts, pending, ncalls, nticks,
                   completed, lastOutput, emaVars, winVars, refVars>>
    /\ UNCHANGED <<conf, started, workers, done, stops, panic, seen, state, restored,
                   prefix, mets>>
    /\ UNCHANGED funVars

InitState ==
    /\ cfg \in [variant : StateVariants, maxKeys : {0}, ms : {1000}, arch : {"amd64"}]
    /\ InitSampler
    /\ InitBlockList
    /\ InitStarted
    /\ InitExtras

\* The one thread that calls the sampler whose state is saved.
StateCaller == CHOOSE c \in Callers : TRUE

\* The sampler runs until its state is saved; then the saved bytes, or others,
\* are loaded into the second sampler, which is started.
NextState ==
    \/ ~state.valid /\ \E key \in Keys, count \in Counts :
                          GetSampleRateMulti_Lock(StateCaller, key, count)
    \/ ~state.valid /\ CallerStep(StateCaller)
    \/ ~state.valid /\ Tick
    \/ ~state.valid /\ UpdateMaps_Snapshot
    \/ ~state.valid /\ UpdateMaps_Publish
    \/ ~state.valid /\ EMATick
    \/ ~state.valid /\ WorkerStep
    \/ SaveState
    \/ LoadSaved
    \/ state.valid /\ LoadOther
    \/ state.valid /\ RestoredStart
    \/ state.valid /\ RestoredSaveState

SpecState == InitState /\ [][NextState]_vars

(***************************************************************************)
(* Which fields the next step of a thread reads or writes, and whether it  *)
(* does so holding the sampler mutex.                                      *)
(***************************************************************************)
Acc(field, write, locked) == [field |-> field, write |-> write, locked |-> locked]

\* GetSampleRateMulti of the samplers that lock for the whole call.
CallerAccesses(c) ==
    IF pc[c] = "incr"
    THEN {Acc("currentCounts", TRUE, TRUE)}
         \cup (IF HasMetrics(cfg.variant)
               THEN {Acc("requestCount", TRUE, TRUE), Acc("eventCount", TRUE, TRUE)}
               ELSE {})
         \cup (IF cfg.variant \in EMAVariants
               THEN {Acc("currentBurstSum", TRUE, TRUE), Acc("burstThreshold", FALSE, TRUE)}
                    \cup (LET sum == IF Admits(currentCounts, arg[c].key, cfg.maxKeys)
                                     THEN currentBurstSum + arg[c].count
                                     ELSE currentBurstSum
                          IN  IF burstThreshold > 0 /\ sum * Scale >= burstThreshold
                              THEN {Acc("intervalCount", FALSE, TRUE)}
                              ELSE {})
               ELSE {})
    ELSE IF pc[c] = "lookup"
    THEN {Acc("savedSampleRates", FALSE, TRUE)}
         \cup (IF HasHaveData(cfg.variant) THEN {Acc("haveData", FALSE, TRUE)} ELSE {})
    ELSE {}

\* WindowedThroughput.GetSampleRateMulti.
WindowedCallerAccesses(c) ==
    IF pc[c] = "count"
    THEN {Acc("requestCount", TRUE, FALSE), Acc("eventCount", TRUE, FALSE)}
    ELSE IF pc[c] = "lookup"
    THEN {Acc("savedSampleRates", FALSE, TRUE)}
    ELSE {}

\* The worker: updateMaps of each sampler and the EMA worker's loop.
WorkerAccesses ==
    CASE pc[Worker] = "snapshot" -> {Acc("currentCounts", TRUE, TRUE)}
      [] pc[Worker] = "publish" ->
           {Acc("savedSampleRates", TRUE, TRUE)}
           \cup (IF HasHaveData(cfg.variant) THEN {Acc("haveData", TRUE, TRUE)} ELSE {})
           \cup (IF cfg.variant \in EMAVariants THEN {Acc("updating", TRUE, TRUE)} ELSE {})
      [] pc[Worker] = "begin" ->
           {Acc("currentCounts", TRUE, TRUE), Acc("updating", TRUE, TRUE),
            Acc("currentBurstSum", TRUE, TRUE)}
      [] pc[Worker] = "ema" -> {Acc("movingAverage", TRUE, FALSE)}
      [] pc[Worker] = "threshold" ->
           {Acc("movingAverage", FALSE, FALSE), Acc("burstThreshold", TRUE, TRUE)}
      [] pc[Worker] = "count" -> {Acc("intervalCount", TRUE, FALSE)}
      [] pc[Worker] = "aggregate" -> {Acc("numKeys", TRUE, FALSE)}
      [] OTHER -> {}

Accesses(t) ==
    IF t = Worker THEN WorkerAccesses
    ELSE IF cfg.variant = "WindowedThroughput" THEN WindowedCallerAccesses(t)
    ELSE CallerAccesses(t)

\* Two threads are about to access the same field, one of them writing, and
\* not both under the mutex.
Race ==
    \E t1, t2 \in Threads :
        /\ t1 # t2
        /\ \E a1 \in Accesses(t1), a2 \in Accesses(t2) :
              /\ a1.field = a2.field
              /\ a1.write \/ a2.write
              /\ ~(a1.locked /\ a2.locked)

(***************************************************************************)
(* The properties.                                                         *)
(***************************************************************************)
\* A call of caller c returns in this step.
Returns(c) == pc[c] # "idle" /\ pc'[c] = "idle"
\* The increment of caller c's call is made in this step.
Increments(c) == pc[c] = "incr" /\ pc'[c] = "lookup"
\* The count of key in counts, 0 for a key not in it.
CountOf(counts, key) == IF key \in DOMAIN counts THEN counts[key] ELSE 0

\* C1: every call of a sampler other than WindowedThroughput returns a rate
\* >= 1, and every call of WindowedThroughput returns a rate >= 0.
C1_RateAtLeastOne ==
    last.valid => last.rate >= (IF cfg.variant = "WindowedThroughput" THEN 0 ELSE 1)

\* C2: as stated, for every variant: while a call is between its increment
\* and its lookup, no step changes the counts or the published table.
C2_IncrementLookupAtomic ==
    [][\A c \in Callers :
          (pc[c] = "lookup" /\ pc'[c] = "lookup")
            => UNCHANGED <<currentCounts, savedSampleRates, haveData, blocks,
                           keyToIndexes>>]_vars

\* C2, amended: the same for every variant but WindowedThroughput, whose call
\* increments under the block list's lock and looks up under the sampler's.
C2_IncrementLookupAtomicLocked ==
    [][\A c \in Callers :
          (cfg.variant \in LockedVariants /\ pc[c] = "lookup" /\ pc'[c] = "lookup")
            => UNCHANGED <<currentCounts, savedSampleRates, haveData>>]_vars

\* A call holds the lock between its increment and its lookup while the
\* worker waits to snapshot or to publish.
C2_Witness ==
    /\ cfg.variant \in LockedVariants
    /\ \E c \in Callers : pc[c] = "lookup" /\ lock = c
    /\ pc[Worker] \in {"snapshot", "publish", "begin", "threshold"}

\* C3: savedSampleRates changes only in the publishing critical section of a
\* recompute, taken with the mutex free, and then becomes exactly the table
\* that recompute computed.
C3_PublishWholesale ==
    [][savedSampleRates' # savedSampleRates
         => /\ pc[Worker] = "publish"
            /\ lock = NoThread
            /\ savedSampleRates' = pending.rates]_vars

\* A second recompute has replaced a non-empty table by a different one.
C3_Witness ==
    /\ completed >= 2
    /\ savedSampleRates # EmptyMap
    /\ \E k \in DOMAIN savedSampleRates : savedSampleRates[k] > 1

\* C4: no two threads access the same field at the same time, one of them
\* writing, unless both hold the sampler mutex.
C4_NoDataRace == ~Race

\* The samplers C5 names, and what each returns before it has data.
ColdVariants == {"AvgSampleRate", "EMASampleRate", "EMAThroughput"}
ColdRate == IF cfg.variant = "EMAThroughput" THEN InitialSampleRate ELSE GoalSampleRate

\* C5: as stated: before the first recompute completes, every call returns
\* the cold-start rate and adds its count to currentCounts[key].
C5_ColdStart ==
    [][\A c \in Callers :
          (cfg.variant \in ColdVariants /\ completed = 0)
            => /\ Returns(c) => last'.rate = ColdRate
               /\ Increments(c)
                    => CountOf(currentCounts', arg[c].key)
                         = CountOf(currentCounts, arg[c].key) + arg[c].count]_vars

\* C5, amended: the count is added unless MaxKeys > 0, the key is new and the
\* window already holds MaxKeys keys; then currentCounts is left as it is.
C5_ColdStartWithinMaxKeys ==
    [][\A c \in Callers :
          (cfg.variant \in ColdVariants /\ completed = 0)
            => /\ Returns(c) => last'.rate = ColdRate
               /\ Increments(c)
                    => IF cfg.maxKeys > 0 /\ arg[c].key \notin DOMAIN currentCounts
                          /\ Size(currentCounts) >= cfg.maxKeys
                       THEN currentCounts' = currentCounts
                       ELSE CountOf(currentCounts', arg[c].key)
                              = CountOf(currentCounts, arg[c].key) + arg[c].count]_vars

\* A call has returned and counted while the first recompute, already past
\* its snapshot, has not completed.
C5_Witness ==
    /\ cfg.variant \in ColdVariants
    /\ completed = 0
    /\ last.valid /\ last.rate = ColdRate
    /\ pc[Worker] = "publish"
    /\ currentCounts # EmptyMap

\* C6: with MaxKeys > 0, currentCounts never holds more than MaxKeys keys; a
\* call for a new key at capacity leaves it unchanged; a call for a key in it
\* adds its count, also at capacity.
C6_MaxKeys ==
    [][(cfg.variant \in LockedVariants /\ cfg.maxKeys > 0)
         => /\ Size(currentCounts') <= cfg.maxKeys
            /\ \A c \in Callers :
                  Increments(c)
                    => IF arg[c].key \in DOMAIN currentCounts
                       THEN currentCounts'
                              = [currentCounts EXCEPT ![arg[c].key] = @ + arg[c].count]
                       ELSE Size(currentCounts) >= cfg.maxKeys
                              => currentCounts' = currentCounts]_vars

\* A call for a new key has just been refused its increment at capacity.
C6_Witness ==
    /\ cfg.variant \in LockedVariants
    /\ cfg.maxKeys > 0
    /\ Size(currentCounts) = cfg.maxKeys
    /\ \E c \in Callers : pc[c] = "lookup" /\ arg[c].key \notin DOMAIN currentCounts

\* C7: BoundedBlockList.IncrementKey succeeds whenever the key is tracked or
\* fewer than maxKeys keys are tracked, and fails, leaving the list as it was,
\* only for an untracked key at maxKeys tracked keys.
C7_TrackedKeyAccepted ==
    (cfg.variant = "BlockList" /\ cfg.maxKeys > 0 /\ lastInc.valid)
      => /\ (lastInc.tracked \/ lastInc.room) => ~lastInc.err
         /\ lastInc.err => (~lastInc.tracked /\ ~lastInc.room /\ lastInc.same)

C9_Equivalence ==
    /\ lastAgg.valid => lastAgg.counts = lastAgg.refCounts
    /\ lastInc.valid => lastInc.err = lastInc.refErr

\* C9, amended: the same, as long as no IncrementKey was given an index
\* below one given earlier.
C9_EquivalenceOrdered ==
    ordered => C9_Equivalence

\* In-order increments over several blocks, a non-empty aggregate, and an
\* increment that both implementations refused.
C9_Witness ==
    /\ ordered
    /\ lastAgg.valid /\ lastAgg.counts # EmptyMap
    /\ lastInc.valid /\ lastInc.err
    /\ top >= 1

\* C10: after a recompute of AvgSampleWithMin over a non-empty window below
\* the minimum, every key of the window has rate 1 and every call for such
\* a key returns 1 until the next recompute.
C10_LowTrafficReturnsOne ==
    [][(cfg.variant = "AvgSampleWithMin" /\ lastOutput.low)
         => /\ \A k \in DOMAIN lastOutput.rates : lastOutput.rates[k] = 1
            /\ \A c \in Callers :
                  (Returns(c) /\ arg[c].key \in DOMAIN lastOutput.rates)
                    => last'.rate = 1]_vars

\* A call on OnlyOnce returns to its caller in this step.
OnceReturns(c) == pc[c] \in {"found", "insert"} /\ pc'[c] = "idle"

\* C11: on OnlyOnce, under any interleaving, a call returns 1 exactly when its
\* key is not in the seen-set at its return, and then puts it there; a call
\* whose key is in the set returns 1,000,000,000; and the set changes only
\* by such an insertion or by the worker's clear, which empties it.  So between
\* two clears exactly one call per key returns 1, and after a clear the next
\* call for a key returns 1 again.
C11_OnceBetweenClears ==
    [][/\ \A c \in Callers :
             OnceReturns(c) =>
                /\ last'.rate = (IF arg[c].key \in seen.keys THEN OnceRate ELSE 1)
                /\ arg[c].key \in seen'.keys
       /\ seen'.keys # seen.keys =>
             \/ \E c \in Callers :
                   /\ OnceReturns(c)
                   /\ last'.rate = 1
                   /\ seen'.keys = seen.keys \cup {arg[c].key}
             \/ /\ pc[Worker] = "clear"
                /\ pc'[Worker] = "select"
                /\ seen'.keys = {}]_vars

\* C11 witness: after a clear, a key has been returned at 1 again and a
\* later call has been turned away with 1,000,000,000.
C11_Witness ==
    /\ cfg.variant = "OnlyOnce"
    /\ completed >= 1
    /\ ncalls = MaxCalls
    /\ seen.keys # {}
    /\ last.valid
    /\ last.rate = OnceRate

\* C12: an OnlyOnce started with a negative clear frequency has no worker,
\* never clears its seen-set, and no call on it fails: GetSampleRateMulti
\* returns 1 for a key's first call and 1,000,000,000 afterwards, and Stop
\* succeeds.
C12_NegativeOnceForever ==
    (cfg.variant = "OnlyOnce" /\ started = "ok" /\ conf.dur < 0)
      => /\ workers = 0
         /\ completed = 0
         /\ panic = "none"
         /\ last.valid => last.rate \in {1, OnceRate}

\* C13: Stop returns only after the worker has exited, so once a Stop call
\* has returned no recompute completes and none changes what the worker
\* publishes: the rate table, haveData and the moving average.
C13_NoRecomputeAfterStop ==
    [][stops >= 1 =>
          /\ completed' = completed
          /\ savedSampleRates' = savedSampleRates
          /\ haveData' = haveData
          /\ movingAverage' = movingAverage]_vars

\* C14: a second Stop on a started sampler returns normally: no behaviour
\* ends in the panic of closing the closed done channel.
C14_SecondStopReturns == panic # "close of closed channel"

\* C15: on the EMA samplers, under any interleaving with the worker, a caller
\* inside GetSampleRateMulti can always take its next step (the burst signal
\* never holds it back), and a worker inside a recompute can take its next
\* step, or waits for nothing but the mutex, held by a caller that can take
\* its own: no state is reachable in which a call or a recompute cannot
\* complete.
C15_CallsAndRecomputesComplete ==
    /\ \A c \in Callers : pc[c] # "idle" => ENABLED CallerStep(c)
    /\ pc[Worker] \in {"ema", "count"} =>
          ENABLED (EMAUpdateMaps_UpdateEMA \/ EMAIntervalCount)
    /\ pc[Worker] \in {"begin", "threshold", "publish"} =>
          \/ CanLock(Worker)
          \/ \E c \in Callers : lock = c /\ ENABLED CallerStep(c)

\* C15 witness: a caller holding the mutex has detected a burst while the
\* worker was inside updateMaps waiting for that mutex; the signal was dropped
\* and the caller went on to its lookup.
C15_Witness ==
    /\ cfg.variant \in EMAVariants
    /\ \E c \in Callers : lock = c /\ pc[c] = "lookup"
    /\ pc[Worker] = "begin"
    /\ burstCount >= 1
    /\ currentBurstSum = 0

\* The second sampler was given the first one's saved bytes by its last
\* LoadState, which succeeded, and was then started.
RestoredFromSave ==
    /\ loaded.op = "load"
    /\ ~loaded.err
    /\ loaded.fromSave
    /\ restored.started

\* C16: a fresh sampler that loads the bytes SaveState returned on s and is then
\* started has s's savedSampleRates (and, for the EMA variants, s's
\* movingAverage), has haveData true, and returns for every key the rate s
\* would return for it.
C16_RoundTrip ==
    RestoredFromSave =>
        /\ restored.saved = loaded.saved
        /\ cfg.variant \in EMAVariants => restored.avg = loaded.avg
        /\ restored.have
        /\ \A key \in Keys :
              LookupRate(cfg.variant, restored.have, restored.saved, key)
                 = LookupRate(cfg.variant, loaded.have, loaded.saved, key)

\* C16 (amended): the started sampler has s's savedSampleRates (and, for the EMA
\* variants, s's movingAverage) and haveData true, and returns for every key
\* the rate stored for it (1 for a key without one); that is the rate s would
\* return when s had haveData true at its SaveState.
C16_RoundTripWithData ==
    RestoredFromSave =>
        /\ restored.saved = loaded.saved
        /\ cfg.variant \in EMAVariants => restored.avg = loaded.avg
        /\ restored.have
        /\ \A key \in Keys :
              LET rate == LookupRate(cfg.variant, restored.have, restored.saved, key)
              IN  /\ rate = LookupRateNoColdStart(cfg.variant, TRUE, loaded.saved, key)
                  /\ loaded.have =>
                        rate = LookupRate(cfg.variant, loaded.have, loaded.saved, key)

\* An EMA sampler restored from a sampler that had data: a stored rate and a
\* moving average with a fraction.
C16_Witness ==
    /\ RestoredFromSave
    /\ loaded.have
    /\ cfg.variant \in EMAVariants
    /\ DOMAIN restored.saved # {}
    /\ \E key \in DOMAIN restored.avg : restored.avg[key] % Scale # 0

\* The bytes parse as the state of sampler v: a JSON document in which every
\* saved sample rate is an integer.
ParsesAsState(v, bytes) ==
    /\ bytes.syntax
    /\ \A i \in 1..Len(bytes.fields) :
          bytes.fields[i].name = "saved_sample_rates" =>
             \A j \in 1..Len(bytes.fields[i].object) :
                bytes.fields[i].object[j].num.frac = 0

\* C17: a LoadState with bytes that do not parse as the sampler's state returns
\* an error and leaves savedSampleRates, movingAverage and haveData as they
\* were; a SaveState on a sampler with an unset map returns an error and no
\* bytes.
C17_FailedLoadKeepsState ==
    [][/\ (loaded'.op = "load" /\ loaded'.n = loaded.n + 1
             /\ ~ParsesAsState(cfg.variant, loaded'.given)) =>
            /\ loaded'.err
            /\ restored'.savedNil = restored.savedNil
            /\ restored'.saved = restored.saved
            /\ restored'.avgNil = restored.avgNil
            /\ restored'.avg = restored.avg
            /\ restored'.have = restored.have
       /\ (loaded'.op = "save" /\ loaded.op # "save" /\ loaded'.unset) =>
            /\ loaded'.err
            /\ ~loaded'.bytes]_vars

\* A LoadState has failed on a sampler that an earlier LoadState had given
\* rates and haveData.
C17_Witness ==
    /\ loaded.op = "load"
    /\ loaded.err
    /\ loaded.n = 2
    /\ ~ParsesAsState(cfg.variant, loaded.given)
    /\ restored.have
    /\ DOMAIN restored.saved # {}

(***************************************************************************)
(* GetMetrics.                                                             *)
(***************************************************************************)
\* Total number of GetMetrics calls in one behaviour.
MaxMetricsCalls == 3

\* The prefixes GetMetrics is called with.
Prefixes == {"", "p_", "q_"}

\* The samplers whose GetMetrics counts under the sampler mutex.
MetricsVariants == {v \in LockedVariants : HasMetrics(v)}

requestCountSuffix == "request_count"
eventCountSuffix == "event_count"

\* GetMetrics(p) of sampler v with these prefix fields and counters: the
\* fields after the call and the map returned.
GetMetricsOf(v, fields, p, req, ev) ==
    IF v \in EMAVariants
    THEN LET f == IF fields.prefix = ""
                  THEN [prefix |-> p,
                        requestCountKey |-> p \o requestCountSuffix,
                        eventCountKey |-> p \o eventCountSuffix]
                  ELSE fields
         IN  IF f.prefix # p
             THEN [fields |-> f, isNil |-> TRUE, keys |-> {}, req |-> 0, ev |-> 0]
             ELSE [fields |-> f, isNil |-> FALSE,
                   keys |-> {f.requestCountKey, f.eventCountKey},
                   req |-> req, ev |-> ev]
    ELSE [fields |-> fields, isNil |-> FALSE,
          keys |-> {p \o "_request_count", p \o "_event_count"},
          req |-> req, ev |-> ev]

\* GetMetrics(p), under the sampler mutex.
GetMetrics(p) ==
    /\ cfg.variant \in MetricsVariants
    /\ mets.n < MaxMetricsCalls
    /\ CanLock(Worker)
    /\ LET res == GetMetricsOf(cfg.variant, prefix, p, requestCount, eventCount)
       IN  /\ prefix' = res.fields
           /\ mets' = [n |-> mets.n + 1, arg |-> p, isNil |-> res.isNil,
                       keys |-> res.keys, req |-> res.req, ev |-> res.ev,
                       pinned |-> mets.pinned \/ ~res.isNil,
                       first |-> IF ~mets.pinned /\ ~res.isNil THEN p ELSE mets.first]
    /\ UNCHANGED <<cfg, lock, pc, arg, last, currentCounts, savedSampleRates, haveData,
                   requestCount, eventCount, tmpCounts, pending, ncalls, nticks,
                   completed, lastOutput, emaVars, winVars, refVars>>
    /\ UNCHANGED <<conf, started, workers, done, stops, panic, seen, state, restored,
                   loaded>>
    /\ UNCHANGED funVars

InitMetrics ==
    /\ cfg \in [variant : MetricsVariants, maxKeys : {0}, ms : {1000}, arch : {"amd64"}]
    /\ InitSampler
    /\ InitBlockList
    /\ InitStarted
    /\ InitExtras

\* One thread calls GetSampleRateMulti, another calls GetMetrics.
NextMetrics ==
    \/ \E key \in Keys, count \in Counts :
          GetSampleRateMulti_Lock(StateCaller, key, count)
    \/ GetSampleRateMulti_Increment(StateCaller)
    \/ GetSampleRateMulti_Return(StateCaller)
    \/ \E p \in Prefixes : GetMetrics(p)

SpecMetrics == InitMetrics /\ [][NextMetrics]_vars

\* C18: once a GetMetrics(p) call has returned a map, a later GetMetrics(p')
\* with p' # p returns nil and leaves the recorded prefix and the memoized key
\* names as they were, and a later GetMetrics(p) returns the current counters.
C18_PrefixPinned ==
    [][(mets'.n = mets.n + 1 /\ mets.pinned) =>
          IF mets'.arg # mets.first
          THEN mets'.isNil /\ prefix' = prefix
          ELSE /\ ~mets'.isNil
               /\ mets'.req = requestCount
               /\ mets'.ev = eventCount]_vars

\* The calls that have not yet reached their requestCount++.
NotYetCounted == {c \in Callers : pc[c] \in {"incr", "count", "seen"}}

\* C19: for every sampler that keeps metrics, requestCount is the number of
\* GetSampleRateMulti calls that have passed their increment and eventCount
\* grows by each call's count argument, whatever the interleaving of calls and
\* recomputes and whether or not MaxKeys rejected the key; no step lowers
\* either counter.
C19_CountersExact ==
    /\ [](HasMetrics(cfg.variant) =>
             requestCount = ncalls - Cardinality(NotYetCounted))
    /\ [][/\ requestCount' >= requestCount
          /\ eventCount' >= eventCount
          /\ \A c \in Callers :
                (HasMetrics(cfg.variant) /\ c \in NotYetCounted /\ pc'[c] # pc[c]) =>
                   /\ requestCount' = requestCount + 1
                   /\ eventCount' = eventCount + arg[c].count]_vars

\* The samplers with a deprecated integer-seconds field or the EMA interval.
IntervalVariants == ClearFrequencyVariants \cup EMAVariants

\* Start returns in this step.
StartReturns == started = "no" /\ started' # "no"

\* The configuration the statement calls an error: both fields non-zero, or,
\* for EMAThroughput, a non-zero AdjustmentInterval below one millisecond.
BothFieldsSet ==
    \/ conf.sec # 0 /\ conf.dur # 0
    \/ cfg.variant = "EMAThroughput" /\ conf.dur # 0 /\ conf.dur < Millisecond

\* The interval the statement gives: the field that is set, or the default.
StatedInterval ==
    IF conf.sec # 0 THEN conf.sec * Second
    ELSE IF conf.dur # 0 THEN conf.dur
    ELSE IF cfg.variant \in EMAVariants THEN 15 * Second
    ELSE 30 * Second

\* After a Start that returned an error no worker exists and no recompute has
\* begun.
NoWorkerAfterError ==
    started = "err" =>
        /\ workers = 0
        /\ pc[Worker] = "none"
        /\ nticks = 0
        /\ completed = 0

\* C20: Start returns an error exactly for the configurations above, and then
\* spawns no worker and no recompute ever runs; otherwise it succeeds, the
\* effective interval is the stated one and exactly one worker is spawned.
C20_StartConfig ==
    /\ [](cfg.variant \in IntervalVariants => NoWorkerAfterError)
    /\ [][(cfg.variant \in IntervalVariants /\ StartReturns) =>
             IF BothFieldsSet
             THEN started' = "err" /\ workers' = 0
             ELSE /\ started' = "ok"
                  /\ conf'.dur = StatedInterval
                  /\ workers' = 1]_vars

\* C20 (amended): the same, except that OnlyOnce spawns no worker when its
\* effective interval is negative.
C20_StartConfigButOnlyOnce ==
    /\ [](cfg.variant \in IntervalVariants => NoWorkerAfterError)
    /\ [][(cfg.variant \in IntervalVariants /\ StartReturns) =>
             IF BothFieldsSet
             THEN started' = "err" /\ workers' = 0
             ELSE /\ started' = "ok"
                  /\ conf'.dur = StatedInterval
                  /\ workers' = IF cfg.variant = "OnlyOnce" /\ StatedInterval < 0
                                THEN 0 ELSE 1]_vars

\* Start has returned its error for a sampler with both fields set, and Stop
\* or nothing else has made a worker or a recompute.
C20_Witness ==
    /\ started = "err"
    /\ conf.sec # 0
    /\ conf.dur # 0
    /\ workers = 0

\* updateEMA runs in this step, on the window snapshot tmpCounts.
UpdatesEMA == pc[Worker] = "ema" /\ pc'[Worker] = "threshold"

ThroughputVariants == {"PerKeyThroughput", "TotalThroughput", "WindowedThroughput"}

\* The intervals explored, in milliseconds: half a second, whole seconds and
\* one and a half seconds.
ThroughputConfigs ==
    [variant : ThroughputVariants, maxKeys : {0}, ms : {500, 1000, 1500, 2000},
     arch : {"amd64"}]

InitThroughput ==
    /\ cfg \in ThroughputConfigs
    /\ InitSampler
    /\ InitBlockList
    /\ InitStarted
    /\ InitExtras

\* One caller and the worker of a throughput sampler.
NextThroughput ==
    \/ \E key \in Keys, count \in Counts :
          GetSampleRateMulti_Lock(StateCaller, key, count)
    \/ GetSampleRateMulti_Increment(StateCaller)
    \/ GetSampleRateMulti_Return(StateCaller)
    \/ Tick
    \/ UpdateMaps_Snapshot
    \/ UpdateMaps_Publish
    \/ \E key \in Keys, count \in Counts : Windowed_Enter(StateCaller, key, count)
    \/ Windowed_Count(StateCaller)
    \/ Windowed_IncrementKey(StateCaller)
    \/ Windowed_Lookup(StateCaller)
    \/ AdvanceTime
    \/ Windowed_Tick
    \/ Windowed_Aggregate
    \/ Windowed_Publish

SpecThroughput == InitThroughput /\ [][NextThroughput]_vars

\* The larger of two integers.
IMax(a, b) == IF a >= b THEN a ELSE b

\* The snapshot step and the publishing step of updateMaps.
TakesSnapshot == pc[Worker] = "snapshot" /\ pc'[Worker] = "publish"
Publishes == pc[Worker] = "publish" /\ pc'[Worker] # "publish"

\* max(1, floor(v / (PerKeyThroughputPerSec x intervalSeconds))), the interval
\* being ms milliseconds.
StatedPerKeyRate(v, ms) == IMax(1, (v * 1000) \div (PerKeyThroughputPerSec * ms))

\* C22: a PerKeyThroughput recompute publishes for each key of the window
\* max(1, floor(count / (PerKeyThroughputPerSec x intervalSeconds))) and
\* nothing for other keys (an empty table for an empty window), and clears
\* currentCounts; a call for a key without a published rate returns 1.
C22_PerKeyRates ==
    [][cfg.variant = "PerKeyThroughput" =>
          /\ TakesSnapshot =>
                /\ currentCounts' = EmptyMap
                /\ pending'.rates = [k \in DOMAIN currentCounts |->
                                       StatedPerKeyRate(currentCounts[k], cfg.ms)]
          /\ Publishes => savedSampleRates' = pending.rates
          /\ \A c \in Callers :
                (Returns(c) /\ arg[c].key \notin DOMAIN savedSampleRates) =>
                   last'.rate = 1]_vars

\* max(1, floor(v / throughputPerKey)) with throughputPerKey =
\* max(1, goal x intervalSeconds / n), the interval being ms milliseconds:
\* v / throughputPerKey is v when goal x ms <= 1000 x n, else
\* v x 1000 x n / (goal x ms).
StatedThroughputRate(v, n, goal, ms) ==
    IF goal * ms <= 1000 * n
    THEN IMax(1, v)
    ELSE IMax(1, (v * 1000 * n) \div (goal * ms))

\* C23: a TotalThroughput recompute over a window with n >= 1 keys publishes
\* for each key max(1, floor(count / throughputPerKey)) with throughputPerKey
\* = max(1, GoalThroughputPerSec x intervalSeconds / n), and clears
\* currentCounts; over an empty window it publishes an empty table, and a
\* call for a key without a published rate returns 1.
C23_TotalRates ==
    [][cfg.variant = "TotalThroughput" =>
          /\ TakesSnapshot =>
                /\ currentCounts' = EmptyMap
                /\ pending'.rates =
                      [k \in DOMAIN currentCounts |->
                         StatedThroughputRate(currentCounts[k], Size(currentCounts),
                                              GoalThroughputPerSec, cfg.ms)]
          /\ Publishes => savedSampleRates' = pending.rates
          /\ \A c \in Callers :
                (Returns(c) /\ arg[c].key \notin DOMAIN savedSampleRates) =>
                   last'.rate = 1]_vars

\* The window w with the count of key k doubled.
Doubled(w, k) == [w EXCEPT ![k] = 2 * w[k]]

\* The table the recompute of throughput sampler v computes for window w.
ThroughputRates(v, w, ms, arch) ==
    IF v = "WindowedThroughput"
    THEN WindowedCompute(w, LookbackIndexes * ms, arch)
    ELSE CountCompute(v, w, ms, arch).rates

\* The recompute of a throughput sampler has computed its table from the
\* window in tmpCounts.
ThroughputComputed ==
    /\ cfg.variant \in ThroughputVariants
    /\ pc[Worker] = "publish"
    /\ tmpCounts # EmptyMap

\* C24: for the window a throughput sampler has just computed its table
\* from, the window with one key's count doubled gives that key a rate >= the
\* one computed and every other key the rate computed.
C24_DoublingMonotone ==
    ThroughputComputed =>
        \A k \in DOMAIN tmpCounts :
           LET r == ThroughputRates(cfg.variant, Doubled(tmpCounts, k), cfg.ms, cfg.arch)
           IN  /\ DOMAIN r = DOMAIN pending.rates
               /\ r[k] >= pending.rates[k]
               /\ \A j \in DOMAIN tmpCounts \ {k} : r[j] = pending.rates[j]

\* A window with two keys in which doubling one key's count raises its rate.
C24_Witness ==
    /\ ThroughputComputed
    /\ Size(tmpCounts) = 2
    /\ \E k \in DOMAIN tmpCounts :
          ThroughputRates(cfg.variant, Doubled(tmpCounts, k), cfg.ms, cfg.arch)[k]
             > pending.rates[k]

(***************************************************************************)
(* calculateSampleRates called on its own.                                 *)
(***************************************************************************)
\* The goal ratios tried: NaN, the infinities, zero, a negative one and
\* positive ones (0.5, 1, 3).
GoalRatios == {NaN, PInf, NInf, Fx(0), Fx(-2000), Fx(500), Fx(1000), Fx(3000)}

\* The counts tried: 0, 0.5, 1, 2, 2.5, 5, 16.
BucketValues == {Fx(0), Fx(500), Fin(1), Fin(2), Fx(2500), Fin(5), Fin(16)}

\* The non-empty maps from keys to counts.
BucketMaps == UNION {[ks -> BucketValues] : ks \in (SUBSET Keys) \ {{}}}

\* The orders in which `for k := range buckets` can yield the keys.
RangeOrders(m) ==
    {r \in [1..Size(m) -> DOMAIN m] : \A i, j \in 1..Size(m) : r[i] = r[j] => i = j}

\* A calculateSampleRates that takes the keys as the range yields them.
SortStringsSkipped(keys) == keys

\* sort.Strings(keys)
SortStrings(keys) == SelectSeq(KeyOrder, LAMBDA k : \E i \in 1..Len(keys) : keys[i] = k)

\* calculateSampleRates, the range over the map yielding the keys in order
\* range.
calculateSampleRatesRanged(goalRatio, buckets, range, arch) ==
    IF Size(buckets) = 1
    THEN [k \in DOMAIN buckets |-> calculateSingleBucketRate(goalRatio, buckets[k], arch)]
    ELSE RateLoop(goalRatio, buckets, SortStrings(range), 1, Fx(0), EmptyMap, arch)

\* calculateSampleRates_original: the loop without the single-bucket shortcut.
calculateSampleRates_original(goalRatio, buckets, range, arch) ==
    RateLoop(goalRatio, buckets, SortStrings(range), 1, Fx(0), EmptyMap, arch)

InitCalc ==
    /\ cfg \in [variant : {"AvgSampleRate"}, maxKeys : {0}, ms : {1000},
                arch : {"amd64", "arm64"}]
    /\ InitSampler
    /\ InitBlockList
    /\ InitStarted
    /\ state = NoState
    /\ restored = FreshSampler
    /\ loaded = NoLoad
    /\ prefix = NoPrefix
    /\ mets = NoMetrics
    /\ lookbackFrequencyDuration = LookbackIndexes * conf.dur
    /\ burstMultiple = BurstMultiple
    /\ ticker = Untimed
    /\ calc \in [goalRatio : GoalRatios, buckets : BucketMaps, range : {<<>>},
                 done : {FALSE}, rates : {EmptyMap}]

\* calculateSampleRates(goalRatio, buckets)
CalculateSampleRates ==
    /\ ~calc.done
    /\ \E range \in RangeOrders(calc.buckets) :
          calc' = [calc EXCEPT
                     !.range = range,
                     !.done = TRUE,
                     !.rates = calculateSampleRatesRanged(calc.goalRatio, calc.buckets,
                                                          range, cfg.arch)]
    /\ UNCHANGED <<cfg, lock, pc, arg, last, currentCounts, savedSampleRates, haveData,
                   requestCount, eventCount, tmpCounts, pending, ncalls, nticks,
                   completed, lastOutput, emaVars, winVars, refVars>>
    /\ UNCHANGED <<conf, started, workers, done, stops, panic, seen, state, restored,
                   loaded, prefix, mets, lookbackFrequencyDuration, burstMultiple,
                   ticker>>

NextCalc == CalculateSampleRates

SpecCalc == InitCalc /\ [][NextCalc]_vars

\* C25: calculateSampleRates returns, for every non-empty map and every goal
\* ratio, a map with the keys of the argument and integer rates >= 1; the
\* result does not depend on the order in which the range yields the keys, and
\* for a single bucket it is what the general loop returns.
C25_RatesWellFormed ==
    calc.done =>
        /\ DOMAIN calc.rates = DOMAIN calc.buckets
        /\ \A k \in DOMAIN calc.rates : calc.rates[k] \in Nat /\ calc.rates[k] >= 1
        /\ \A r \in RangeOrders(calc.buckets) :
              /\ calculateSampleRatesRanged(calc.goalRatio, calc.buckets, r, cfg.arch)
                    = calc.rates
              /\ calculateSampleRates_original(calc.goalRatio, calc.buckets, r, cfg.arch)
                    = calc.rates

\* A call with goal ratio -Inf on two buckets, yielded in reverse order, that
\* returned a rate above 1.
C25_Witness ==
    /\ calc.done
    /\ calc.goalRatio = NInf
    /\ calc.range = <<"b", "a">>
    /\ \E k \in DOMAIN calc.rates : calc.rates[k] > 1

(***************************************************************************)
(* WindowedThroughput.Start on the configurations of its two durations.    *)
(***************************************************************************)
\* The UpdateFrequencyDuration settings tried: unset, 1 s, 5 s and -5 s.
UpdateDurations == {0, Second, 5 * Second, -5 * Second}

\* The LookbackFrequencyDuration settings tried: unset, 3 s, 5 s, 18 s, 30 s,
\* -18 s and -20 s.
LookbackDurations ==
    {0, 3 * Second, 5 * Second, 18 * Second, 30 * Second, -18 * Second, -20 * Second}

\* A WindowedThroughput struct with its durations set, before Start.
InitWindowedStart ==
    /\ \E u \in UpdateDurations :
          /\ conf = [sec |-> 0, dur |-> u]
          /\ cfg = [variant |-> "WindowedThroughput", maxKeys |-> 0,
                    ms |-> PeriodMs("WindowedThroughput", conf), arch |-> "amd64"]
    /\ pc = [t \in Threads |-> IF t = Worker THEN "none" ELSE "unstarted"]
    /\ InitFields
    /\ InitBlockList
    /\ started = "no"
    /\ workers = 0
    /\ done = "nil"
    /\ stops = 0
    /\ panic = "none"
    /\ seen = NilSeen
    /\ state = NoState
    /\ restored = FreshSampler
    /\ loaded = NoLoad
    /\ prefix = NoPrefix
    /\ mets = NoMetrics
    /\ calc = NoCalc
    /\ burstMultiple = BurstMultiple
    /\ ticker = Untimed
    /\ lookbackFrequencyDuration \in LookbackDurations

NextWindowedStart ==
    \/ Start
    \/ WorkerNewTicker
    \/ Stop
    \/ WorkerDone

SpecWindowedStart == InitWindowedStart /\ [][NextWindowedStart]_vars

\* floor(a / b) for a non-zero b.
FloorDiv(a, b) == IF b > 0 THEN a \div b ELSE (-a) \div (-b)

\* The update period and the lookback the statement gives for the settings
\* the struct holds.
StatedUpdate == IF conf.dur = 0 THEN Second ELSE conf.dur
StatedLookbackInput ==
    IF lookbackFrequencyDuration = 0 THEN 30 * StatedUpdate ELSE lookbackFrequencyDuration

Magnitude(x) == IF x < 0 THEN -x ELSE x

Sentinel == [index |-> MaxInt, keyToCount |-> EmptyMap]

\* The linked list from b.head on: the sentinel, then the blocks.
BlockChain == <<Sentinel>> \o blocks

\* C27: on WindowedThroughput, under any interleaving of calls, recomputes and
\* the passing of time, the list from the head on is strictly decreasing in
\* index, so that no index is in two blocks and the sentinel at the head has
\* the largest index.
C27_StrictlyDecreasing ==
    cfg.variant = "WindowedThroughput" =>
        /\ BlockChain[1] = Sentinel
        /\ \A i, j \in 1..Len(BlockChain) :
              i < j => BlockChain[i].index > BlockChain[j].index

\* The blocks of bl with an index above finish.
AboveFinish(bl, finish) == SelectSeq(bl, LAMBDA b : b.index > finish)

\* C28 as stated: AggregateCounts(current, lookback) keeps every block with
\* an index at or above finish = current - 1 - lookback: the block at finish
\* goes only in a later aggregation with a higher finish.
C28_FinishBlockKept ==
    [][\A currentIndex \in 0..(MaxKeyIndex + 1), lookbackIndex \in 0..MaxLookback :
          TestAggregateCounts(currentIndex, lookbackIndex) =>
             \A i \in 1..Len(blocks) :
                blocks[i].index >= currentIndex - 1 - lookbackIndex
                   => \E j \in 1..Len(blocks') : blocks'[j] = blocks[i]]_vars

\* C28 amended: AggregateCounts cuts the list at the first block with an
\* index at or below finish, so no block at or below finish is in the list
\* when it returns; while the increments came with non-decreasing indexes it
\* keeps exactly the blocks above finish.
C28_FinishBlockDropped ==
    [][\A currentIndex \in 0..(MaxKeyIndex + 1), lookbackIndex \in 0..MaxLookback :
          TestAggregateCounts(currentIndex, lookbackIndex) =>
             LET finish == currentIndex - 1 - lookbackIndex
             IN  /\ \A j \in 1..Len(blocks') : blocks'[j].index > finish
                 /\ \E n \in 0..Len(blocks) : blocks' = SubSeq(blocks, 1, n)
                 /\ ordered => blocks' = AboveFinish(blocks, finish)]_vars

\* An aggregation after in-order increments that cut off the block at its
\* finish index and kept a block above it.
C28_Witness ==
    /\ ordered
    /\ lastAgg.valid
    /\ \E i \in 1..Len(lastAgg.dropped) : lastAgg.dropped[i] = lastAgg.finish
    /\ blocks # <<>>

\* The worker's updateMaps aggregates its window in this step.
AggregatesWindow == pc[Worker] = "aggregate" /\ pc'[Worker] = "publish"

\* The events of rec inside the window of the recompute at index c with a
\* lookback of L indexes: those of an index i with i + 1 <= c <= i + L.
InWindow(rec, k, c, L) == {n \in 1..Len(rec[k]) : rec[k][n] + 1 <= c /\ c <= rec[k][n] + L}

\* The aggregate the statement gives for that recompute.
StatedAggregate(rec, c, L) ==
    [k \in {j \in DOMAIN rec : InWindow(rec, j, c, L) # {}} |->
       Cardinality(InWindow(rec, k, c, L))]

\* C29: the recompute of WindowedThroughput at index c aggregates, of the
\* events accepted so far, exactly those of an index i with
\* i + 1 <= c <= i + L; it publishes for each key of the aggregate
\* max(1, floor(count / perKey)) with perKey = max(1, GoalThroughputPerSec x
\* lookbackSeconds / numKeys), and nothing for other keys; a call for a key
\* without a published rate returns 0.
C29_WindowedRecompute ==
    [][cfg.variant = "WindowedThroughput" =>
          /\ AggregatesWindow =>
                /\ tmpCounts' = StatedAggregate(records, now, LookbackIndexes)
                /\ pending'.rates =
                      [k \in DOMAIN tmpCounts' |->
                         StatedThroughputRate(tmpCounts'[k], Size(tmpCounts'),
                                              GoalThroughputPerSec,
                                              LookbackIndexes * cfg.ms)]
          /\ Publishes => savedSampleRates' = pending.rates
          /\ \A c \in Callers :
                (pc[c] = "lookup" /\ pc'[c] = "idle"
                   /\ arg[c].key \notin DOMAIN savedSampleRates) => last'.rate = 0]_vars

(***************************************************************************)
(* The EMA samplers with burst detection on (BurstMultiple 2, the default) *)
(* and off (BurstMultiple -1).                                             *)
(***************************************************************************)
BurstMultiples == {BurstMultiple, -1}

InitBurst ==
    /\ cfg \in Configs
    /\ cfg.variant \in EMAVariants
    /\ InitSampler
    /\ InitBlockList
    /\ InitStarted
    /\ state = NoState
    /\ restored = FreshSampler
    /\ loaded = NoLoad
    /\ prefix = NoPrefix
    /\ mets = NoMetrics
    /\ calc = NoCalc
    /\ lookbackFrequencyDuration = LookbackIndexes * conf.dur
    /\ burstMultiple \in BurstMultiples
    /\ ticker = Untimed

NextBurst ==
    \/ \E c \in Callers, key \in Keys, count \in Counts :
          GetSampleRateMulti_Lock(c, key, count)
    \/ \E c \in Callers : GetSampleRateMulti_Increment(c)
    \/ \E c \in Callers : GetSampleRateMulti_Return(c)
    \/ EMATick
    \/ EMAUpdateMaps_Begin
    \/ EMAUpdateMaps_UpdateEMA
    \/ EMAUpdateMaps_Threshold
    \/ EMAUpdateMaps_Publish
    \/ EMAIntervalCount

SpecBurst == InitBurst /\ [][NextBurst]_vars

\* currentBurstSum after the increment of caller c: its count is added when
\* the key is counted.
SumAfter(c) ==
    IF Admits(currentCounts, arg[c].key, cfg.maxKeys)
    THEN currentBurstSum + arg[c].count
    ELSE currentBurstSum

\* The condition the statement gives for a burst, on that sum.
StatedBurst(c) ==
    /\ burstThreshold > 0
    /\ SumAfter(c) * Scale >= burstThreshold
    /\ intervalCount >= BurstDetectionDelay

InitTimer ==
    /\ cfg \in Configs
    /\ cfg.variant \in EMAVariants
    /\ InitSampler
    /\ InitBlockList
    /\ InitStarted
    /\ state = NoState
    /\ restored = FreshSampler
    /\ loaded = NoLoad
    /\ prefix = NoPrefix
    /\ mets = NoMetrics
    /\ calc = NoCalc
    /\ lookbackFrequencyDuration = LookbackIndexes * conf.dur
    /\ burstMultiple = BurstMultiple
    /\ ticker = [timed |-> TRUE, age |-> 0, owed |-> -1]

\* Time passes by one step; a tick that is due does not wait.
Elapse ==
    /\ ticker.timed
    /\ ticker.age < IntervalSteps
    /\ ticker' = [ticker EXCEPT !.age = @ + 1,
                                !.owed = IF @ < 0 THEN @ ELSE @ + 1]
    /\ UNCHANGED <<cfg, lock, pc, arg, last, currentCounts, savedSampleRates, haveData,
                   requestCount, eventCount, tmpCounts, pending, ncalls, nticks,
                   completed, lastOutput, emaVars, winVars, refVars, otherVars>>

NextTimer ==
    \/ \E c \in Callers, key \in Keys, count \in Counts :
          GetSampleRateMulti_Lock(c, key, count)
    \/ \E c \in Callers : GetSampleRateMulti_Increment(c)
    \/ \E c \in Callers : GetSampleRateMulti_Return(c)
    \/ EMATick
    \/ EMAUpdateMaps_Begin
    \/ EMAUpdateMaps_UpdateEMA
    \/ EMAUpdateMaps_Threshold
    \/ EMAUpdateMaps_Publish
    \/ EMAIntervalCount
    \/ Elapse

SpecTimer == InitTimer /\ [][NextTimer]_vars

\* The worker leaves its select by the ticker case, by the burst case.
TickReceived == pc[Worker] = "select" /\ pc'[Worker] = "begin" /\ wake' = "tick"
BurstReceived == pc[Worker] = "select" /\ pc'[Worker] = "begin" /\ wake' = "burst"

\* The worker is back at its select in this step.
BackAtSelect == pc[Worker] # "select" /\ pc'[Worker] = "select"

\* The worker is between a tick and the intervalCount++ that follows it.
ServingTick == pc[Worker] # "select" /\ wake = "tick"

\* C31: a received burst signal starts one recompute and restarts the ticker,
\* so that the next tick is a full interval away, and leaves intervalCount
\* alone; a tick starts one recompute, after which intervalCount goes up by
\* exactly one, traffic or not.  intervalCount is the number of ticks
\* processed.
C31_Scheduler ==
    /\ [][BurstReceived => ticker'.age = 0 /\ intervalCount' = intervalCount]_vars
    /\ [][TickReceived =>
             /\ ticker.age = IntervalSteps
             /\ ticker'.age = 0
             /\ nticks' = nticks + 1
             /\ intervalCount' = intervalCount]_vars
    /\ [][ticker'.age # ticker.age =>
             \/ ticker'.age = ticker.age + 1 /\ pc' = pc
             \/ ticker'.age = 0 /\ (TickReceived \/ BurstReceived)]_vars
    /\ [][BackAtSelect =>
             IF wake = "tick"
             THEN pc[Worker] = "count" /\ intervalCount' = intervalCount + 1
             ELSE intervalCount' = intervalCount]_vars
    /\ [][intervalCount' # intervalCount => BackAtSelect /\ wake = "tick"]_vars
    /\ [](intervalCount = IF ServingTick THEN nticks - 1 ELSE nticks)

\* Two ticks have been processed, the second over a window without traffic,
\* after a burst had restarted the ticker.
C31_Witness ==
    /\ ticker.timed
    /\ intervalCount = 2
    /\ burstCount >= 1
    /\ pc[Worker] = "select"
    /\ currentCounts = EmptyMap

\* A call detects a burst in this step and nobody receives its signal.
SignalDropped ==
    /\ burstCount' = burstCount + 1
    /\ ~BurstReceived

\* updateMaps passes its first critical section in this step.
UpdateBegins == pc[Worker] = "begin" /\ pc'[Worker] # "begin"

MaxUpdates == 2

\* go e.updateMaps(): a goroutine of its own runs updateMaps.  Its tmpCounts
\* and table are locals; the model keeps the ones of the call that is past
\* the updating check.
GoUpdateMaps(c) ==
    /\ cfg.variant \in EMAVariants
    /\ pc[c] = "idle"
    /\ completed < MaxUpdates
    /\ pc' = [pc EXCEPT ![c] = "begin"]
    /\ UNCHANGED <<cfg, lock, arg, last, currentCounts, savedSampleRates, haveData,
                   requestCount, eventCount, tmpCounts, pending, ncalls, nticks,
                   completed, lastOutput, emaVars, winVars, refVars, lifeVars>>

\* The next step of a goroutine that is inside updateMaps.
UpdateMapsStep(t) ==
    \/ updateMaps_Begin(t)
    \/ updateMaps_UpdateEMA(t)
    \/ updateMaps_Threshold(t)
    \/ updateMaps_Publish(t)

NextUpdateRace ==
    \* GetSampleRate(key): one event per call, as in the test.
    \/ \E c \in Callers, key \in Keys : GetSampleRateMulti_Lock(c, key, 1)
    \/ \E c \in Callers : GetSampleRateMulti_Increment(c)
    \/ \E c \in Callers : GetSampleRateMulti_Return(c)
    \/ \E c \in Callers : GoUpdateMaps(c)
    \/ \E t \in Threads : UpdateMapsStep(t)
    \/ EMATick
    \/ EMAIntervalCount

SpecUpdateRace == InitEMA /\ [][NextUpdateRace]_vars

\* The goroutine is between the snapshot of currentCounts and the publication
\* of its table.
Recomputing(t) == pc[t] \in {"ema", "threshold", "publish"}

\* The goroutine's updateMaps takes its first critical section, and publishes.
EntersUpdateMaps(t) == pc[t] = "begin" /\ pc'[t] # "begin"
PublishesTable(t) == pc[t] = "publish" /\ pc'[t] # "publish"

\* C33: at most one updateMaps is between its snapshot and its publication,
\* and updating is true exactly while one is; an updateMaps that finds
\* updating set returns at once and leaves currentCounts, the burst sum, the
\* snapshot, movingAverage, savedSampleRates, haveData and updating as they
\* were; the publication clears updating.
C33_OneRecompute ==
    /\ [](Cardinality({t \in Threads : Recomputing(t)}) <= 1)
    /\ [](updating <=> \E t \in Threads : Recomputing(t))
    /\ [][\A t \in Threads :
            EntersUpdateMaps(t) /\ updating =>
               /\ ~Recomputing(t)'
               /\ UNCHANGED <<currentCounts, currentBurstSum, tmpCounts, pending,
                              movingAverage, savedSampleRates, haveData, updating,
                              burstThreshold>>]_vars
    /\ [][\A t \in Threads : PublishesTable(t) => ~updating']_vars

\* An updateMaps has returned at the updating check, with counts waiting,
\* while another goroutine's is still computing.
C33_Witness ==
    /\ bailed = "updating"
    /\ updating
    /\ \E t \in Threads : Recomputing(t)
    /\ Size(currentCounts) > 0

(***************************************************************************)
(* The moving average across recomputes.                                   *)
(***************************************************************************)
\* The worker's updateMaps returns from its first critical section.
ShortCircuits == EntersUpdateMaps(Worker) /\ ~Recomputing(Worker)'

\* Weight x count + (1 - Weight) x old, count being 0 for a key the window
\* does not hold; in thousandths.
StatedAverage(old, window, k) ==
    LET count == IF k \in DOMAIN window THEN window[k] ELSE 0
    IN  (WeightMilli * count * Scale) \div Scale + ((Scale - WeightMilli) * old) \div Scale

\* Every key of the moving average is replaced by its stated average over
\* the window, or deleted when that is below AgeOutValue.
AveragesFollow(window) ==
    \A k \in DOMAIN movingAverage :
        LET newAvg == StatedAverage(movingAverage[k], window, k)
        IN  IF newAvg < AgeOutMilli
            THEN k \notin DOMAIN movingAverage'
            ELSE k \in DOMAIN movingAverage' /\ movingAverage'[k] = newAvg

\* C34 as stated: every recompute, the one that finds an empty window
\* included, replaces the average of each key by Weight x count +
\* (1 - Weight) x old and deletes the key when that is below AgeOutValue.
C34_EveryRecompute ==
    /\ [][UpdatesEMA => AveragesFollow(tmpCounts)]_vars
    /\ [][ShortCircuits => AveragesFollow(currentCounts)]_vars

\* C34: a recompute whose window holds at least one key runs updateEMA on that
\* window, which replaces the average of each key by Weight x count +
\* (1 - Weight) x old (count 0 for a key the window lacks) and deletes the key
\* when that is below AgeOutValue; a recompute that finds the window empty
\* leaves every average as it was, and nothing else changes movingAverage.
C34_NonEmptyRecompute ==
    /\ [][UpdatesEMA => AveragesFollow(tmpCounts)]_vars
    /\ [][EntersUpdateMaps(Worker) /\ Size(currentCounts) > 0 =>
             Recomputing(Worker)' /\ tmpCounts' = currentCounts]_vars
    /\ [](Recomputing(Worker) => Size(tmpCounts) > 0)
    /\ [][ShortCircuits => Size(currentCounts) = 0 /\ movingAverage' = movingAverage]_vars
    /\ [][movingAverage' # movingAverage => UpdatesEMA]_vars

\* updateEMA has run on a window that lacks a key of the moving average, and
\* the key is kept with its decayed average.
C34_Witness ==
    /\ pc[Worker] = "threshold"
    /\ Size(tmpCounts) > 0
    /\ \E k \in DOMAIN movingAverage :
          /\ k \notin DOMAIN tmpCounts
          /\ k \in DOMAIN savedSampleRates
          /\ movingAverage[k] = ((Scale - WeightMilli) * 2 * WeightMilli) \div Scale

\* C35: a recompute of an EMA sampler that finds currentCounts empty returns
\* from its first critical section and leaves savedSampleRates, movingAverage,
\* burstThreshold, currentBurstSum, haveData, updating and the empty window
\* as they were, so the rate a lookup yields for any key is the same after it
\* as before.
C35_EmptyWindow ==
    [][\A t \in Threads :
          EntersUpdateMaps(t) /\ Size(currentCounts) = 0 =>
             /\ ~Recomputing(t)'
             /\ UNCHANGED <<savedSampleRates, movingAverage, burstThreshold,
                            currentBurstSum, haveData, updating, currentCounts>>
             /\ \A key \in Keys :
                   LookupRate(cfg.variant, haveData', savedSampleRates', key)
                      = LookupRate(cfg.variant, haveData, savedSampleRates, key)]_vars

\* A table was published, and the recompute after it found no traffic: the
\* worker is back in its loop and the table is still there.
C35_Witness ==
    /\ bailed = "empty"
    /\ haveData
    /\ Size(savedSampleRates) > 0
    /\ Size(movingAverage) > 0
    /\ pc[Worker] \in {"count", "select"}

(***************************************************************************)
(* Stop and the end of the worker, under fair scheduling.                  *)
(***************************************************************************)
StopVariants == EMAVariants \cup {"TotalThroughput"}

InitStop ==
    /\ Init
    /\ cfg.variant \in StopVariants

\* The steps of the worker, once it has left its select, that compute no
\* table.
UpdateMapsRuns ==
    \/ UpdateMaps_Publish
    \/ EMAUpdateMaps_Begin
    \/ EMAUpdateMaps_UpdateEMA
    \/ EMAUpdateMaps_Publish
    \/ EMAIntervalCount

\* The worker is at a step that computes a table, and the lock it needs is
\* free: UpdateMaps_Snapshot or EMAUpdateMaps_Threshold is enabled.
ComputeReady == pc[Worker] \in {"snapshot", "threshold"} /\ lock = NoThread

NextStop ==
    \/ \E c \in Callers, key \in Keys : GetSampleRateMulti_Lock(c, key, 1)
    \/ \E c \in Callers : GetSampleRateMulti_Increment(c)
    \/ \E c \in Callers : GetSampleRateMulti_Return(c)
    \/ Tick
    \/ EMATick
    \/ UpdateMaps_Snapshot
    \/ EMAUpdateMaps_Threshold
    \/ UpdateMapsRuns
    \/ Stop
    \/ WorkerDone

\* The scheduler lets every goroutine that can run go on: a caller inside
\* GetSampleRateMulti reaches its return, which unlocks, and the worker inside
\* updateMaps goes on.  The select chooses fairly among its ready cases, so
\* the done case, ready every time the worker is back at the select, is taken.
\* For the two steps that compute a table weak fairness is written out: the
\* step is not enabled for ever, since only taking it ends ComputeReady.
FairStop ==
    /\ \A c \in Callers : WF_vars(CallerStep(c))
    /\ WF_vars(UpdateMapsRuns)
    /\ []<>~ComputeReady
    /\ SF_vars(WorkerDone)

SpecStop == InitStop /\ [][NextStop]_vars /\ FairStop

\* The worker is inside updateMaps, or about to count the interval.
InUpdateMaps == pc[Worker] \in {"snapshot", "publish", "begin", "ema", "threshold", "count"}

\* The worker goroutine has returned, or the process has ended by a panic.
WorkerGone == pc[Worker] = "exited" \/ panic # "none"

\* C36: once done is closed the worker eventually exits; it exits only from
\* its select, so an updateMaps in progress goes on to its end and leaves
\* "publish" only by writing its table to savedSampleRates; and after the
\* exit no recompute runs and intervalCount, the tables and the averages no
\* longer change.
C36_WorkerExits ==
    /\ (done = "closed") ~> WorkerGone
    /\ (done = "closed" /\ InUpdateMaps) ~> (pc[Worker] = "select" \/ WorkerGone)
    /\ [][InUpdateMaps => pc'[Worker] # "exited"]_vars
    /\ [][done' # done => pc'[Worker] = pc[Worker] /\ tmpCounts' = tmpCounts
                             /\ pending' = pending]_vars
    /\ [][pc[Worker] = "publish" /\ pc'[Worker] \notin {"publish", "crashed"} =>
             savedSampleRates' = pending.rates]_vars
    /\ [][pc[Worker] = "exited" =>
             /\ pc'[Worker] \in {"exited", "crashed"}
             /\ UNCHANGED <<intervalCount, nticks, completed, savedSampleRates,
                            movingAverage, tmpCounts, haveData, updating>>]_vars

\* Stop has closed done while the worker's updateMaps, with a window to work
\* on, had not yet published.
C36_Witness ==
    /\ done = "closed"
    /\ panic = "none"
    /\ pc[Worker] \in {"publish", "threshold", "ema"}
    /\ Size(tmpCounts) > 0

(***************************************************************************)
(* Every count in one window.                                              *)
(***************************************************************************)
\* A recompute swaps currentCounts for a fresh map in this step.
SnapshotTaken ==
    \E t \in Threads : \/ pc[t] = "snapshot" /\ pc'[t] = "publish"
                       \/ pc[t] = "begin" /\ pc'[t] = "ema"

\* What the call that increments in this step, if any, adds to key k.
Added(k) ==
    LET cs == {c \in Callers : /\ Increments(c)
                               /\ arg[c].key = k
                               /\ Admits(currentCounts, k, cfg.maxKeys)}
    IN  IF cs = {} THEN 0 ELSE arg[CHOOSE c \in cs : TRUE].count

\* C37: for the samplers that snapshot currentCounts, every step keeps, key
\* by key, what currentCounts held plus what the step's call adds equal to
\* what currentCounts holds afterwards plus what the step's snapshot takes;
\* a snapshot takes the whole of currentCounts and leaves it empty; and a
\* snapshot, taken only when the one before has been dropped, is not changed
\* until the recompute drops it, so counts arriving meanwhile stay in
\* currentCounts for the next snapshot.
C37_EveryCountOnce ==
    [][cfg.variant \in LockedVariants =>
          /\ \A k \in Keys :
                CountOf(currentCounts', k)
                   + (IF SnapshotTaken THEN CountOf(tmpCounts', k) ELSE 0)
                = CountOf(currentCounts, k) + Added(k)
          /\ SnapshotTaken => /\ Size(tmpCounts) = 0
                              /\ tmpCounts' = currentCounts
                              /\ currentCounts' = EmptyMap
          /\ ~SnapshotTaken => tmpCounts' \in {tmpCounts, EmptyMap}]_vars

\* While the worker computes over its snapshot a call has counted into the
\* fresh map.
C37_Witness ==
    /\ cfg.variant \in LockedVariants
    /\ pc[Worker] \in {"publish", "ema", "threshold"}
    /\ Size(tmpCounts) > 0
    /\ Size(currentCounts) > 0

(***************************************************************************)
(* haveData from Start on: the running sampler's recomputes, and LoadState *)
(* and Start on the second sampler.                                        *)
(***************************************************************************)
InitHaveData ==
    /\ cfg \in [variant : AvgVariants \cup EMAVariants, maxKeys : {0}, ms : {1000},
                arch : {"amd64"}]
    /\ InitSampler
    /\ InitBlockList
    /\ InitStarted
    /\ InitExtras

SpecHaveData == InitHaveData /\ [][NextState]_vars

\* The worker's updateMaps returns in this step.
UpdateMapsReturns ==
    /\ pc[Worker] \in {"publish", "begin"}
    /\ pc'[Worker] \in {"select", "count"}

\* C38: haveData is false until the first recompute; it turns true only in
\* the step in which a recompute over a window with at least one key
\* publishes its table, and on the second sampler only in a LoadState that
\* returns no error; Start leaves it as it is; a recompute over an empty
\* window leaves it as it is; it never turns false; and once it is true every
\* call returns the saved rate of its key, or 1 for a key without one.
C38_HaveDataMonotone ==
    /\ [](nticks = 0 => ~haveData)
    /\ [](loaded.n = 0 => ~restored.have)
    /\ [][haveData => haveData']_vars
    /\ [][restored.have => restored.have']_vars
    /\ [][~haveData /\ haveData' =>
             /\ pc[Worker] = "publish"
             /\ UpdateMapsReturns
             /\ Size(tmpCounts) > 0
             /\ savedSampleRates' = pending.rates]_vars
    /\ [][restored.have' # restored.have =>
             /\ loaded'.n = loaded.n + 1
             /\ loaded'.op = "load"
             /\ ~loaded'.err
             /\ ~restored.started]_vars
    /\ [][restored.started' # restored.started => restored.have' = restored.have]_vars
    /\ [][UpdateMapsReturns /\ (Size(tmpCounts) = 0 \/ pc[Worker] = "begin") =>
             haveData' = haveData]_vars
    /\ [][\A c \in Callers :
             Returns(c) /\ haveData =>
                last'.rate = IF arg[c].key \in DOMAIN savedSampleRates
                             THEN savedSampleRates[arg[c].key] ELSE 1]_vars

\* A first recompute has set haveData, a second one over an empty window has
\* cleared the table, and a call after it was answered 1, not the cold-start
\* rate.
C38_Witness ==
    /\ cfg.variant \in AvgVariants
    /\ haveData
    /\ completed >= 2
    /\ Size(savedSampleRates) = 0
    /\ last.valid
    /\ last.rate = 1

(***************************************************************************)
(* keyToIndexes of the bounded list against the blocks.                    *)
(***************************************************************************)
\* The indexes of the blocks of bl whose map holds key k.
BlocksWith(bl, k) == {bl[i].index : i \in {j \in 1..Len(bl) : k \in DOMAIN bl[j].keyToCount}}

\* The indexes recorded for key k.
Recorded(k2i, k) == IF k \in DOMAIN k2i THEN {k2i[k][i] : i \in 1..Len(k2i[k])} ELSE {}

\* C39: on a bounded list whose increments came with indexes that never
\* decreased, keyToIndexes holds at most maxKeys keys, no key with an empty
\* list, only strictly decreasing lists, and for every key exactly the
\* indexes of the blocks that hold the key; so a step forgets a key exactly
\* when it drops the last block that holds it, and only an aggregation does.
C39_KeyToIndexes ==
    /\ [](cfg.variant = "BlockList" /\ cfg.maxKeys > 0 /\ ordered =>
             /\ Size(keyToIndexes) <= cfg.maxKeys
             /\ \A k \in DOMAIN keyToIndexes :
                   /\ Len(keyToIndexes[k]) > 0
                   /\ \A i \in 1..(Len(keyToIndexes[k]) - 1) :
                         keyToIndexes[k][i] > keyToIndexes[k][i + 1]
             /\ \A k \in Keys : Recorded(keyToIndexes, k) = BlocksWith(blocks, k))
    /\ [][cfg.variant = "BlockList" /\ cfg.maxKeys > 0 /\ ordered' =>
             \A k \in Keys :
                /\ (k \in DOMAIN keyToIndexes /\ k \notin DOMAIN keyToIndexes')
                      <=> (BlocksWith(blocks, k) # {} /\ BlocksWith(blocks', k) = {})
                /\ (k \in DOMAIN keyToIndexes /\ k \notin DOMAIN keyToIndexes')
                      => \E currentIndex \in 0..(MaxKeyIndex + 1),
                            lookbackIndex \in 0..MaxLookback :
                            TestAggregateCounts(currentIndex, lookbackIndex)]_vars

\* A list of capacity one was emptied by an aggregation, which forgot its
\* key, and the increment after it was accepted as a new key.
C39_Witness ==
    /\ cfg.variant = "BlockList"
    /\ cfg.maxKeys = 1
    /\ ordered
    /\ lastAgg.valid
    /\ Len(lastAgg.dropped) > 0
    /\ lastInc.valid
    /\ ~lastInc.err
    /\ ~lastInc.tracked
    /\ Size(keyToIndexes) = 1

=============================================================================
